---------------------------- MODULE Spec2Model ----------------------------
(***************************************************************************)
(* The chess rule engine of src/chess.py (board, attack sets, pseudo-legal *)
(* move generation, legality filter, apply_move) and the caller that plays *)
(* a game with it.                                                         *)
(*                                                                         *)
(* A Python dict keeps its keys in insertion order and the engine iterates *)
(* over board.items(); a Board is therefore a record of the mapping (map)  *)
(* and of the keys in insertion order (keys).  A Python list is a          *)
(* sequence.  Python's None is <<>> where a Square is expected and the     *)
(* string "None" where a promotion kind is expected.                       *)
(***************************************************************************)
EXTENDS Integers, Sequences, FiniteSets, TLC

\* ------------------------------------------------------------------------
\* Data model (src/chess.py 7-40)

Piece(color, kind) == [color |-> color, kind |-> kind]

NoSquare == <<>>

NoChoice == "None"

Colors == {"w", "b"}

\* ------------------------------------------------------------ dict helpers
\* A Board (Dict[Square, Piece]) is [map, keys]: map[row + 1][col + 1] is the
\* piece on (row, col), or NoPiece when the square is no key of the dict;
\* keys lists the dict's keys in insertion order, the order of board.items().

NoPiece == [color |-> "-", kind |-> "-"]

EmptyRow == <<NoPiece, NoPiece, NoPiece, NoPiece, NoPiece, NoPiece, NoPiece, NoPiece>>

EmptyDict ==
    [map  |-> <<EmptyRow, EmptyRow, EmptyRow, EmptyRow,
                EmptyRow, EmptyRow, EmptyRow, EmptyRow>>,
     keys |-> <<>>]

\* board.get(sq); the grid holds the pieces of the squares in bounds
At(board, sq) ==
    IF 0 <= sq[1] /\ sq[1] < 8 /\ 0 <= sq[2] /\ sq[2] < 8
    THEN board.map[sq[1] + 1][sq[2] + 1]
    ELSE NoPiece

\* sq in board
DictHas(board, sq) ==
    /\ 0 <= sq[1] /\ sq[1] < 8 /\ 0 <= sq[2] /\ sq[2] < 8
    /\ board.map[sq[1] + 1][sq[2] + 1] # NoPiece

\* board.pop(sq, None)
DictPop(board, sq) ==
    IF DictHas(board, sq)
    THEN [map  |-> [board.map EXCEPT ![sq[1] + 1][sq[2] + 1] = NoPiece],
          keys |-> SelectSeq(board.keys, LAMBDA k : k # sq)]
    ELSE board

\* board[sq] = piece
DictSet(board, sq, piece) ==
    [map  |-> [board.map EXCEPT ![sq[1] + 1][sq[2] + 1] = piece],
     keys |-> IF DictHas(board, sq) THEN board.keys ELSE Append(board.keys, sq)]

RECURSIVE DictOf(_)
DictOf(items) ==
    IF items = <<>> THEN EmptyDict
    ELSE DictSet(DictOf(SubSeq(items, 1, Len(items) - 1)),
                 items[Len(items)][1], items[Len(items)][2])

\* ------------------------------------------------------------ initial state

initial_board ==
    DictOf(
      <<<<<<6, 0>>, Piece("w", "P")>>, <<<<1, 0>>, Piece("b", "P")>>,
        <<<<6, 1>>, Piece("w", "P")>>, <<<<1, 1>>, Piece("b", "P")>>,
        <<<<6, 2>>, Piece("w", "P")>>, <<<<1, 2>>, Piece("b", "P")>>,
        <<<<6, 3>>, Piece("w", "P")>>, <<<<1, 3>>, Piece("b", "P")>>,
        <<<<6, 4>>, Piece("w", "P")>>, <<<<1, 4>>, Piece("b", "P")>>,
        <<<<6, 5>>, Piece("w", "P")>>, <<<<1, 5>>, Piece("b", "P")>>,
        <<<<6, 6>>, Piece("w", "P")>>, <<<<1, 6>>, Piece("b", "P")>>,
        <<<<6, 7>>, Piece("w", "P")>>, <<<<1, 7>>, Piece("b", "P")>>,
        <<<<7, 0>>, Piece("w", "R")>>, <<<<7, 7>>, Piece("w", "R")>>,
        <<<<0, 0>>, Piece("b", "R")>>, <<<<0, 7>>, Piece("b", "R")>>,
        <<<<7, 1>>, Piece("w", "N")>>, <<<<7, 6>>, Piece("w", "N")>>,
        <<<<0, 1>>, Piece("b", "N")>>, <<<<0, 6>>, Piece("b", "N")>>,
        <<<<7, 2>>, Piece("w", "B")>>, <<<<7, 5>>, Piece("w", "B")>>,
        <<<<0, 2>>, Piece("b", "B")>>, <<<<0, 5>>, Piece("b", "B")>>,
        <<<<7, 3>>, Piece("w", "Q")>>, <<<<0, 3>>, Piece("b", "Q")>>,
        <<<<7, 4>>, Piece("w", "K")>>, <<<<0, 4>>, Piece("b", "K")>>>>)

initial_state ==
    [board           |-> initial_board,
     current         |-> "w",
     castling_rights |-> [w |-> [K |-> TRUE, Q |-> TRUE],
                          b |-> [K |-> TRUE, Q |-> TRUE]],
     en_passant      |-> NoSquare]

\* ------------------------------------------------------------ board queries

\* in_bounds letting row 8 and column 8 pass.
in_bounds_to_8(square) ==
    0 <= square[1] /\ square[1] <= 8 /\ 0 <= square[2] /\ square[2] <= 8

in_bounds(square) ==
    0 <= square[1] /\ square[1] < 8 /\ 0 <= square[2] /\ square[2] < 8

is_opponent(piece, other) == piece.color # other.color

Opponent(color) == IF color = "w" THEN "b" ELSE "w"

PawnDirection(color) == IF color = "w" THEN -1 ELSE 1

Abs(n) == IF n < 0 THEN -n ELSE n

\* ------------------------------------------------------------ move generation

BishopDeltas == <<<<-1, -1>>, <<-1, 1>>, <<1, -1>>, <<1, 1>>>>

RookDeltas == <<<<-1, 0>>, <<1, 0>>, <<0, -1>>, <<0, 1>>>>

QueenDeltas == BishopDeltas \o RookDeltas

KnightDeltas ==
    <<<<-2, -1>>, <<-2, 1>>, <<-1, -2>>, <<-1, 2>>,
      <<1, -2>>, <<1, 2>>, <<2, -1>>, <<2, 1>>>>

KingDeltas ==
    <<<<-1, -1>>, <<-1, 0>>, <<-1, 1>>, <<0, -1>>,
      <<0, 1>>, <<1, -1>>, <<1, 0>>, <<1, 1>>>>

\* sliding_moves keeping the first occupied square of a ray whatever the
\* color of its occupant.
RECURSIVE SlidingRayInclusive(_, _, _, _, _, _)
SlidingRayInclusive(board, row, col, dr, dc, piece) ==
    LET next_sq == <<row + dr, col + dc>> IN
    IF ~in_bounds(next_sq) THEN <<>>
    ELSE IF DictHas(board, next_sq) THEN <<next_sq>>
         ELSE <<next_sq>>
              \o SlidingRayInclusive(board, row + dr, col + dc, dr, dc, piece)

\* sliding_moves going on past the first occupied square of a ray.
RECURSIVE SlidingRayJumping(_, _, _, _, _, _)
SlidingRayJumping(board, row, col, dr, dc, piece) ==
    LET next_sq == <<row + dr, col + dc>> IN
    IF ~in_bounds(next_sq) THEN <<>>
    ELSE (IF DictHas(board, next_sq) /\ ~is_opponent(piece, At(board, next_sq))
          THEN <<>> ELSE <<next_sq>>)
         \o SlidingRayJumping(board, row + dr, col + dc, dr, dc, piece)

\* One ray of sliding_moves: the body of its while loop.
RECURSIVE SlidingRay(_, _, _, _, _, _)
SlidingRay(board, row, col, dr, dc, piece) ==
    LET next_sq == <<row + dr, col + dc>> IN
    IF ~in_bounds(next_sq) THEN <<>>
    ELSE IF DictHas(board, next_sq)
         THEN IF is_opponent(piece, At(board, next_sq))
              THEN <<next_sq>> ELSE <<>>
         ELSE <<next_sq>> \o SlidingRay(board, row + dr, col + dc, dr, dc, piece)

RECURSIVE SlidingFrom(_, _, _, _, _)
SlidingFrom(board, start, deltas, piece, i) ==
    IF i > Len(deltas) THEN <<>>
    ELSE SlidingRay(board, start[1], start[2], deltas[i][1], deltas[i][2], piece)
         \o SlidingFrom(board, start, deltas, piece, i + 1)

sliding_moves(board, start, deltas, piece) ==
    SlidingFrom(board, start, deltas, piece, 1)

\* knight_moves and king_moves without their in_bounds test.
RECURSIVE StepMovesAnywhere(_, _, _, _, _)
StepMovesAnywhere(board, start, deltas, piece, i) ==
    IF i > Len(deltas) THEN <<>>
    ELSE LET square == <<start[1] + deltas[i][1], start[2] + deltas[i][2]>> IN
         (IF ~DictHas(board, square) \/ is_opponent(piece, At(board, square))
          THEN <<square>> ELSE <<>>)
         \o StepMovesAnywhere(board, start, deltas, piece, i + 1)

\* knight_moves and king_moves share their loop body: a fixed list of
\* offsets, kept when in bounds and not occupied by an own piece.
RECURSIVE StepMoves(_, _, _, _, _)
StepMoves(board, start, deltas, piece, i) ==
    IF i > Len(deltas) THEN <<>>
    ELSE LET square == <<start[1] + deltas[i][1], start[2] + deltas[i][2]>> IN
         (IF in_bounds(square)
             /\ (~DictHas(board, square) \/ is_opponent(piece, At(board, square)))
          THEN <<square>> ELSE <<>>)
         \o StepMoves(board, start, deltas, piece, i + 1)

knight_moves(board, start, piece) == StepMoves(board, start, KnightDeltas, piece, 1)

king_moves(board, start, piece) == StepMoves(board, start, KingDeltas, piece, 1)

PawnCapture(board, start, piece, dc) ==
    LET capture == <<start[1] + PawnDirection(piece.color), start[2] + dc>> IN
    IF in_bounds(capture) /\ DictHas(board, capture)
       /\ is_opponent(piece, At(board, capture))
    THEN <<capture>> ELSE <<>>

\* pawn_moves without the double step from the start row.
pawn_moves_one_step(state, start, piece) ==
    LET board     == state.board
        direction == PawnDirection(piece.color)
        one_step  == <<start[1] + direction, start[2]>>
    IN  (IF in_bounds(one_step) /\ ~DictHas(board, one_step)
         THEN <<one_step>> ELSE <<>>)
        \o PawnCapture(board, start, piece, -1)
        \o PawnCapture(board, start, piece, 1)
        \o (IF state.en_passant # NoSquare
               /\ state.en_passant[1] = start[1] + direction
               /\ Abs(state.en_passant[2] - start[2]) = 1
            THEN <<state.en_passant>> ELSE <<>>)

\* pawn_moves offering the double step over an occupied square.
pawn_moves_jumping(state, start, piece) ==
    LET board     == state.board
        direction == PawnDirection(piece.color)
        one_step  == <<start[1] + direction, start[2]>>
        start_row == IF piece.color = "w" THEN 6 ELSE 1
        two_step  == <<start[1] + 2 * direction, start[2]>>
    IN  (IF in_bounds(one_step) /\ ~DictHas(board, one_step)
         THEN <<one_step>> ELSE <<>>)
        \o (IF start[1] = start_row /\ ~DictHas(board, two_step)
            THEN <<two_step>> ELSE <<>>)
        \o PawnCapture(board, start, piece, -1)
        \o PawnCapture(board, start, piece, 1)
        \o (IF state.en_passant # NoSquare
               /\ state.en_passant[1] = start[1] + direction
               /\ Abs(state.en_passant[2] - start[2]) = 1
            THEN <<state.en_passant>> ELSE <<>>)

pawn_moves(state, start, piece) ==
    LET board     == state.board
        direction == PawnDirection(piece.color)
        row       == start[1]
        col       == start[2]
        one_step  == <<row + direction, col>>
        start_row == IF piece.color = "w" THEN 6 ELSE 1
        two_step  == <<row + 2 * direction, col>>
    IN  (IF in_bounds(one_step) /\ ~DictHas(board, one_step)
         THEN <<one_step>> \o
              (IF row = start_row /\ ~DictHas(board, two_step)
               THEN <<two_step>> ELSE <<>>)
         ELSE <<>>)
        \o PawnCapture(board, start, piece, -1)
        \o PawnCapture(board, start, piece, 1)
        \o (IF state.en_passant # NoSquare
               /\ state.en_passant[1] = row + direction
               /\ Abs(state.en_passant[2] - col) = 1
            THEN <<state.en_passant>> ELSE <<>>)

\* ------------------------------------------------------------ attacks, check

RECURSIVE FindKingFrom(_, _, _)
FindKingFrom(board, color, i) ==
    IF i > Len(board.keys) THEN NoSquare
    ELSE IF At(board, board.keys[i]) = Piece(color, "K") THEN board.keys[i]
         ELSE FindKingFrom(board, color, i + 1)

find_king(board, color) == FindKingFrom(board, color, 1)

\* attacks counting the square straight ahead of a pawn instead of its
\* diagonals.
PawnAttackAhead(square, color, dc) ==
    LET target == <<square[1] + PawnDirection(color), square[2]>> IN
    IF in_bounds(target) THEN <<target>> ELSE <<>>

PawnAttack(square, color, dc) ==
    LET target == <<square[1] + PawnDirection(color), square[2] + dc>> IN
    IF in_bounds(target) THEN <<target>> ELSE <<>>

\* What one piece adds to the list built by attacks.
PieceAttacks(board, square, piece) ==
    CASE piece.kind = "P" -> PawnAttack(square, piece.color, -1)
                             \o PawnAttack(square, piece.color, 1)
      [] piece.kind = "N" -> knight_moves(board, square, piece)
      [] piece.kind = "B" -> sliding_moves(board, square, BishopDeltas, piece)
      [] piece.kind = "R" -> sliding_moves(board, square, RookDeltas, piece)
      [] piece.kind = "Q" -> sliding_moves(board, square, QueenDeltas, piece)
      [] piece.kind = "K" -> king_moves(board, square, piece)
      [] OTHER -> <<>>

RECURSIVE AttacksFrom(_, _, _)
AttacksFrom(board, color, i) ==
    IF i > Len(board.keys) THEN <<>>
    ELSE LET square == board.keys[i]
             piece  == At(board, square)
         IN  (IF piece.color # color THEN <<>>
              ELSE PieceAttacks(board, square, piece))
             \o AttacksFrom(board, color, i + 1)

attacks(board, color) == AttacksFrom(board, color, 1)

Contains(list, x) == \E i \in 1..Len(list) : list[i] = x

\* is_in_check looking at the attacks of the king's own side.
is_in_check_own_side(state, color) ==
    LET king_square == find_king(state.board, color) IN
    IF king_square = NoSquare THEN FALSE
    ELSE Contains(attacks(state.board, color), king_square)

\* is_in_check answering true when find_king finds no king.
is_in_check_no_king(state, color) ==
    LET king_square == find_king(state.board, color) IN
    IF king_square = NoSquare THEN TRUE
    ELSE Contains(attacks(state.board, Opponent(color)), king_square)

is_in_check(state, color) ==
    LET king_square == find_king(state.board, color) IN
    IF king_square = NoSquare THEN FALSE
    ELSE Contains(attacks(state.board, Opponent(color)), king_square)

piece_moves(state, start, piece) ==
    CASE piece.kind = "P" -> pawn_moves(state, start, piece)
      [] piece.kind = "N" -> knight_moves(state.board, start, piece)
      [] piece.kind = "B" -> sliding_moves(state.board, start, BishopDeltas, piece)
      [] piece.kind = "R" -> sliding_moves(state.board, start, RookDeltas, piece)
      [] piece.kind = "Q" -> sliding_moves(state.board, start, QueenDeltas, piece)
      [] piece.kind = "K" -> king_moves(state.board, start, piece)
      [] OTHER -> <<>>

\* castling_moves without its is_in_check test.
castling_moves_in_check(state, start, piece) ==
    IF piece.kind # "K" THEN <<>>
    ELSE LET row == IF piece.color = "w" THEN 7 ELSE 0 IN
         IF start # <<row, 4>> THEN <<>>
         ELSE LET a        == attacks(state.board, Opponent(piece.color))
                  attacked == {a[i] : i \in 1..Len(a)}
                  rights   == state.castling_rights[piece.color]
              IN  (IF rights.K
                      /\ (\A square \in {<<row, 5>>, <<row, 6>>} :
                            ~DictHas(state.board, square))
                      /\ (\A square \in {<<row, 5>>, <<row, 6>>} :
                            square \notin attacked)
                   THEN <<<<row, 6>>>> ELSE <<>>)
                  \o
                  (IF rights.Q
                      /\ (\A square \in {<<row, 3>>, <<row, 2>>, <<row, 1>>} :
                            ~DictHas(state.board, square))
                      /\ (\A square \in {<<row, 3>>, <<row, 2>>} :
                            square \notin attacked)
                   THEN <<<<row, 2>>>> ELSE <<>>)

\* castling_moves asking that all three queenside squares be unattacked.
castling_moves_three_unattacked(state, start, piece) ==
    IF piece.kind # "K" THEN <<>>
    ELSE IF is_in_check(state, piece.color) THEN <<>>
    ELSE LET row == IF piece.color = "w" THEN 7 ELSE 0 IN
         IF start # <<row, 4>> THEN <<>>
         ELSE LET a        == attacks(state.board, Opponent(piece.color))
                  attacked == {a[i] : i \in 1..Len(a)}
                  rights   == state.castling_rights[piece.color]
              IN  (IF rights.K
                      /\ (\A square \in {<<row, 5>>, <<row, 6>>} :
                            ~DictHas(state.board, square))
                      /\ (\A square \in {<<row, 5>>, <<row, 6>>} :
                            square \notin attacked)
                   THEN <<<<row, 6>>>> ELSE <<>>)
                  \o
                  (IF rights.Q
                      /\ (\A square \in {<<row, 3>>, <<row, 2>>, <<row, 1>>} :
                            ~DictHas(state.board, square))
                      /\ (\A square \in {<<row, 3>>, <<row, 2>>, <<row, 1>>} :
                            square \notin attacked)
                   THEN <<<<row, 2>>>> ELSE <<>>)

castling_moves(state, start, piece) ==
    IF piece.kind # "K" THEN <<>>
    ELSE IF is_in_check(state, piece.color) THEN <<>>
    ELSE LET row == IF piece.color = "w" THEN 7 ELSE 0 IN
         IF start # <<row, 4>> THEN <<>>
         ELSE LET a        == attacks(state.board, Opponent(piece.color))
                  attacked == {a[i] : i \in 1..Len(a)}
                  rights   == state.castling_rights[piece.color]
              IN  (IF rights.K
                      /\ (\A square \in {<<row, 5>>, <<row, 6>>} :
                            ~DictHas(state.board, square))
                      /\ (\A square \in {<<row, 5>>, <<row, 6>>} :
                            square \notin attacked)
                   THEN <<<<row, 6>>>> ELSE <<>>)
                  \o
                  (IF rights.Q
                      /\ (\A square \in {<<row, 3>>, <<row, 2>>, <<row, 1>>} :
                            ~DictHas(state.board, square))
                      /\ (\A square \in {<<row, 3>>, <<row, 2>>} :
                            square \notin attacked)
                   THEN <<<<row, 2>>>> ELSE <<>>)

\* ------------------------------------------------------------ apply_move

KeyError == [error |-> "KeyError"]

IsCastlingMove(piece, start, end) ==
    piece.kind = "K" /\ Abs(end[2] - start[2]) = 2

RookStart(start, end) == IF end[2] = 6 THEN <<start[1], 7>> ELSE <<start[1], 0>>

\* apply_move sending the rook to column 3 on either side.
RookEndColumn3(start, end) == <<start[1], 3>>

\* apply_move sending the rook to column 5 on either side.
RookEndColumn5(start, end) == <<start[1], 5>>

RookEnd(start, end) == IF end[2] = 6 THEN <<start[1], 5>> ELSE <<start[1], 3>>

\* apply_move taking en passant only onto an occupied target square.
IsEnPassantCaptureOccupied(state, piece, end) ==
    /\ piece.kind = "P"
    /\ state.en_passant # NoSquare
    /\ end = state.en_passant
    /\ DictHas(state.board, end)

IsEnPassantCapture(state, piece, end) ==
    /\ piece.kind = "P"
    /\ state.en_passant # NoSquare
    /\ end = state.en_passant
    /\ ~DictHas(state.board, end)

\* apply_move promoting White's pawns only.
IsPromotionWhiteOnly(piece, end) ==
    piece.kind = "P" /\ piece.color = "w" /\ end[1] = 0

\* apply_move promoting Black's pawns only.
IsPromotionBlackOnly(piece, end) ==
    piece.kind = "P" /\ piece.color = "b" /\ end[1] = 7

IsPromotion(piece, end) ==
    /\ piece.kind = "P"
    /\ \/ piece.color = "w" /\ end[1] = 0
       \/ piece.color = "b" /\ end[1] = 7

\* apply_move putting the castling rook on its new square without taking it
\* off its corner.
MovedBoardRookCopied(state, start, end, promotion_choice) ==
    LET piece == At(state.board, start)
        b1 == DictPop(state.board, start)
        b2 == IF IsEnPassantCapture(state, piece, end)
              THEN DictPop(b1, <<end[1] + (-PawnDirection(piece.color)), end[2]>>)
              ELSE b1
        b3 == IF IsCastlingMove(piece, start, end)
              THEN DictSet(b2, RookEnd(start, end), At(b2, RookStart(start, end)))
              ELSE b2
        b4 == DictSet(b3, end, piece)
    IN  IF IsPromotion(piece, end)
        THEN DictSet(b4, end,
                     Piece(piece.color,
                           IF promotion_choice = NoChoice THEN "Q"
                           ELSE promotion_choice))
        ELSE b4

\* Lines 284-312: the new board.
MovedBoard(state, start, end, promotion_choice) ==
    LET piece == At(state.board, start)
        b1 == DictPop(state.board, start)
        b2 == IF IsEnPassantCapture(state, piece, end)
              THEN DictPop(b1, <<end[1] + (-PawnDirection(piece.color)), end[2]>>)
              ELSE b1
        b3 == IF IsCastlingMove(piece, start, end)
              THEN DictSet(DictPop(b2, RookStart(start, end)),
                           RookEnd(start, end), At(b2, RookStart(start, end)))
              ELSE b2
        b4 == DictSet(b3, end, piece)
    IN  IF IsPromotion(piece, end)
        THEN DictSet(b4, end,
                     Piece(piece.color,
                           IF promotion_choice = NoChoice THEN "Q"
                           ELSE promotion_choice))
        ELSE b4

\* Lines 314-337: the new castling rights.
ClearCorner(rights, square) ==
    [w |-> [K |-> rights.w.K /\ square # <<7, 7>>,
            Q |-> rights.w.Q /\ square # <<7, 0>>],
     b |-> [K |-> rights.b.K /\ square # <<0, 7>>,
            Q |-> rights.b.Q /\ square # <<0, 0>>]]

\* apply_move without lines 319-328: a moving rook clears nothing.
NewCastlingRookIgnored(state, start, end) ==
    LET piece == At(state.board, start)
        r0 == state.castling_rights
        r1 == IF piece.kind = "K"
              THEN [r0 EXCEPT ![piece.color] = [K |-> FALSE, Q |-> FALSE]]
              ELSE r0
    IN  IF DictHas(state.board, end) /\ end # start
           /\ At(state.board, end).kind = "R"
        THEN ClearCorner(r1, end) ELSE r1

\* apply_move reading captured after board[end] = piece: it sees the mover.
NewCastlingCapturedAfter(state, start, end) ==
    LET piece == At(state.board, start)
        r0 == state.castling_rights
        r1 == IF piece.kind = "K"
              THEN [r0 EXCEPT ![piece.color] = [K |-> FALSE, Q |-> FALSE]]
              ELSE r0
        r2 == IF piece.kind = "R" THEN ClearCorner(r1, start) ELSE r1
    IN  IF piece.kind = "R" THEN ClearCorner(r2, end) ELSE r2

\* apply_move without lines 329-337: a captured rook clears nothing.
NewCastlingNoCapture(state, start, end) ==
    LET piece == At(state.board, start)
        r0 == state.castling_rights
        r1 == IF piece.kind = "K"
              THEN [r0 EXCEPT ![piece.color] = [K |-> FALSE, Q |-> FALSE]]
              ELSE r0
    IN  IF piece.kind = "R" THEN ClearCorner(r1, start) ELSE r1

\* apply_move building the rights of the side that did not move afresh.
NewCastlingFresh(state, start, end) ==
    LET piece == At(state.board, start)
        r0 == [state.castling_rights EXCEPT
                  ![Opponent(piece.color)] = [K |-> TRUE, Q |-> TRUE]]
    IN  IF piece.kind = "K"
        THEN [r0 EXCEPT ![piece.color] = [K |-> FALSE, Q |-> FALSE]]
        ELSE r0

\* apply_move without lines 316-318: a moving king clears nothing.
NewCastlingKingIgnored(state, start, end) ==
    LET piece == At(state.board, start)
        r0 == state.castling_rights
        r2 == IF piece.kind = "R" THEN ClearCorner(r0, start) ELSE r0
    IN  IF DictHas(state.board, end) /\ end # start
           /\ At(state.board, end).kind = "R"
        THEN ClearCorner(r2, end) ELSE r2

NewCastling(state, start, end) ==
    LET piece == At(state.board, start)
        r0 == state.castling_rights
        r1 == IF piece.kind = "K"
              THEN [r0 EXCEPT ![piece.color] = [K |-> FALSE, Q |-> FALSE]]
              ELSE r0
        r2 == IF piece.kind = "R" THEN ClearCorner(r1, start) ELSE r1
    IN  IF DictHas(state.board, end) /\ end # start
           /\ At(state.board, end).kind = "R"
        THEN ClearCorner(r2, end) ELSE r2

\* apply_move keeping the old target when the move is no double step.
NewEnPassantKept(state, start, end) ==
    IF At(state.board, start).kind = "P" /\ Abs(end[1] - start[1]) = 2
    THEN <<(start[1] + end[1]) \div 2, start[2]>>
    ELSE state.en_passant

\* apply_move setting the target to the square the pawn landed on.
NewEnPassantLanding(state, start, end) ==
    IF At(state.board, start).kind = "P" /\ Abs(end[1] - start[1]) = 2
    THEN end
    ELSE NoSquare

\* Lines 339-343: the new en-passant target.
NewEnPassant(state, start, end) ==
    IF At(state.board, start).kind = "P" /\ Abs(end[1] - start[1]) = 2
    THEN <<(start[1] + end[1]) \div 2, start[2]>>
    ELSE NoSquare

\* board.pop(start) and board.pop(rook_start) raise KeyError on a missing key.
ApplyMoveRaises(state, start, end) ==
    \/ ~DictHas(state.board, start)
    \/ /\ IsCastlingMove(At(state.board, start), start, end)
       /\ \/ RookStart(start, end) = start
          \/ ~DictHas(state.board, RookStart(start, end))

\* apply_move returning the state with the same color to move.
apply_move_same_color(state, start, end, promotion_choice) ==
    IF ApplyMoveRaises(state, start, end) THEN KeyError
    ELSE [board           |-> MovedBoard(state, start, end, promotion_choice),
          current         |-> state.current,
          castling_rights |-> NewCastling(state, start, end),
          en_passant      |-> NewEnPassant(state, start, end)]

apply_move(state, start, end, promotion_choice) ==
    IF ApplyMoveRaises(state, start, end) THEN KeyError
    ELSE [board           |-> MovedBoard(state, start, end, promotion_choice),
          current         |-> IF state.current = "w" THEN "b" ELSE "w",
          castling_rights |-> NewCastling(state, start, end),
          en_passant      |-> NewEnPassant(state, start, end)]

\* ------------------------------------------------------------ legal_moves

\* legal_moves without its is_in_check test: every candidate is kept.
RECURSIVE FilterTargetsUnchecked(_, _, _, _, _)
FilterTargetsUnchecked(state, color, square, targets, j) ==
    IF j > Len(targets) THEN <<>>
    ELSE <<<<square, targets[j]>>>>
         \o FilterTargetsUnchecked(state, color, square, targets, j + 1)

\* legal_moves without its is_in_check test for promoting moves.
RECURSIVE FilterTargetsPromoting(_, _, _, _, _)
FilterTargetsPromoting(state, color, square, targets, j) ==
    IF j > Len(targets) THEN <<>>
    ELSE LET candidate == apply_move(state, square, targets[j], NoChoice) IN
         (IF IsPromotion(At(state.board, square), targets[j])
             \/ ~is_in_check(candidate, color)
          THEN <<<<square, targets[j]>>>> ELSE <<>>)
         \o FilterTargetsPromoting(state, color, square, targets, j + 1)

\* legal_moves without its is_in_check test for the moves of a king.
RECURSIVE FilterTargetsKingUnchecked(_, _, _, _, _)
FilterTargetsKingUnchecked(state, color, square, targets, j) ==
    IF j > Len(targets) THEN <<>>
    ELSE LET candidate == apply_move(state, square, targets[j], NoChoice) IN
         (IF At(state.board, square).kind = "K" \/ ~is_in_check(candidate, color)
          THEN <<<<square, targets[j]>>>> ELSE <<>>)
         \o FilterTargetsKingUnchecked(state, color, square, targets, j + 1)

RECURSIVE FilterTargets(_, _, _, _, _)
FilterTargets(state, color, square, targets, j) ==
    IF j > Len(targets) THEN <<>>
    ELSE LET candidate == apply_move(state, square, targets[j], NoChoice) IN
         (IF ~is_in_check(candidate, color)
          THEN <<<<square, targets[j]>>>> ELSE <<>>)
         \o FilterTargets(state, color, square, targets, j + 1)

RECURSIVE LegalFrom(_, _, _)
LegalFrom(state, color, i) ==
    IF i > Len(state.board.keys) THEN <<>>
    ELSE LET square == state.board.keys[i]
             piece  == At(state.board, square)
         IN  (IF piece.color # color THEN <<>>
              ELSE FilterTargets(state, color, square,
                                 piece_moves(state, square, piece)
                                 \o castling_moves(state, square, piece), 1))
             \o LegalFrom(state, color, i + 1)

legal_moves(state, color) == LegalFrom(state, color, 1)

\* ------------------------------------------------------------ the game
\* ChessGUI holds the current GameState and replaces it by apply_move's
\* result for a pair it found in legal_moves(self.state, self.state.current).
\* A game follows one of the scripted games below and is then continued by
\* MaxFree freely chosen half-moves.  Squares are (row, col); in the comments
\* a move is written file-rank to file-rank (square_name), with the chosen
\* promotion kind appended.

\* Freely chosen half-moves played after the scripted part of a game.
MaxFree == 1

PromotionChoices == {"Q", "R", "B", "N"}

NoMove == <<>>

\* GameA: 43 half-moves, then 20 legal moves for b
\*   e2e4 e7e5 g1f3 b8c6 f1c4 f8c5 e1g1 d7d6 d2d3 c8g4 b1c3 d8d7 c1e3
\*   e8c8 e3c5 d6c5 c3d5 g8f6 d5f6 g7f6 a2a3 g4f3 d1f3 d7d4 f3f6 d4b2
\*   f6f7 b2c2 f7e6 c8b8 a1c1 c2d3 c4d3 d8d3 e6c6 b7c6 f1d1 d3d1 c1d1
\*   h8e8 d1d8 e8d8 a3a4
GameA ==
    <<
      <<<<6, 4>>, <<4, 4>>, "None">>, <<<<1, 4>>, <<3, 4>>, "None">>,
      <<<<7, 6>>, <<5, 5>>, "None">>, <<<<0, 1>>, <<2, 2>>, "None">>,
      <<<<7, 5>>, <<4, 2>>, "None">>, <<<<0, 5>>, <<3, 2>>, "None">>,
      <<<<7, 4>>, <<7, 6>>, "None">>, <<<<1, 3>>, <<2, 3>>, "None">>,
      <<<<6, 3>>, <<5, 3>>, "None">>, <<<<0, 2>>, <<4, 6>>, "None">>,
      <<<<7, 1>>, <<5, 2>>, "None">>, <<<<0, 3>>, <<1, 3>>, "None">>,
      <<<<7, 2>>, <<5, 4>>, "None">>, <<<<0, 4>>, <<0, 2>>, "None">>,
      <<<<5, 4>>, <<3, 2>>, "None">>, <<<<2, 3>>, <<3, 2>>, "None">>,
      <<<<5, 2>>, <<3, 3>>, "None">>, <<<<0, 6>>, <<2, 5>>, "None">>,
      <<<<3, 3>>, <<2, 5>>, "None">>, <<<<1, 6>>, <<2, 5>>, "None">>,
      <<<<6, 0>>, <<5, 0>>, "None">>, <<<<4, 6>>, <<5, 5>>, "None">>,
      <<<<7, 3>>, <<5, 5>>, "None">>, <<<<1, 3>>, <<4, 3>>, "None">>,
      <<<<5, 5>>, <<2, 5>>, "None">>, <<<<4, 3>>, <<6, 1>>, "None">>,
      <<<<2, 5>>, <<1, 5>>, "None">>, <<<<6, 1>>, <<6, 2>>, "None">>,
      <<<<1, 5>>, <<2, 4>>, "None">>, <<<<0, 2>>, <<0, 1>>, "None">>,
      <<<<7, 0>>, <<7, 2>>, "None">>, <<<<6, 2>>, <<5, 3>>, "None">>,
      <<<<4, 2>>, <<5, 3>>, "None">>, <<<<0, 3>>, <<5, 3>>, "None">>,
      <<<<2, 4>>, <<2, 2>>, "None">>, <<<<1, 1>>, <<2, 2>>, "None">>,
      <<<<7, 5>>, <<7, 3>>, "None">>, <<<<5, 3>>, <<7, 3>>, "None">>,
      <<<<7, 2>>, <<7, 3>>, "None">>, <<<<0, 7>>, <<0, 4>>, "None">>,
      <<<<7, 3>>, <<0, 3>>, "None">>, <<<<0, 4>>, <<0, 3>>, "None">>,
      <<<<5, 0>>, <<4, 0>>, "None">>
    >>

\* GameB: 40 half-moves, then 8 legal moves for w
\*   d2d4 g8f6 b1c3 e7e6 c1f4 f8e7 d1d2 e8g8 e1c1 b7b6 d4d5 c7c5 d5c6
\*   c8a6 c6c7 d8e8 c7b8R a8b8 f4b8 e8b8 d2d7 f6d7 d1d7 e7g5 e2e3 g5e3
\*   f2e3 a6f1 d7a7 f1g2 g1e2 g2h1 c3b5 b8h2 b5d6 h2e2 d6f7 f8f7 a7f7
\*   g8f7
GameB ==
    <<
      <<<<6, 3>>, <<4, 3>>, "None">>, <<<<0, 6>>, <<2, 5>>, "None">>,
      <<<<7, 1>>, <<5, 2>>, "None">>, <<<<1, 4>>, <<2, 4>>, "None">>,
      <<<<7, 2>>, <<4, 5>>, "None">>, <<<<0, 5>>, <<1, 4>>, "None">>,
      <<<<7, 3>>, <<6, 3>>, "None">>, <<<<0, 4>>, <<0, 6>>, "None">>,
      <<<<7, 4>>, <<7, 2>>, "None">>, <<<<1, 1>>, <<2, 1>>, "None">>,
      <<<<4, 3>>, <<3, 3>>, "None">>, <<<<1, 2>>, <<3, 2>>, "None">>,
      <<<<3, 3>>, <<2, 2>>, "None">>, <<<<0, 2>>, <<2, 0>>, "None">>,
      <<<<2, 2>>, <<1, 2>>, "None">>, <<<<0, 3>>, <<0, 4>>, "None">>,
      <<<<1, 2>>, <<0, 1>>, "R">>, <<<<0, 0>>, <<0, 1>>, "None">>,
      <<<<4, 5>>, <<0, 1>>, "None">>, <<<<0, 4>>, <<0, 1>>, "None">>,
      <<<<6, 3>>, <<1, 3>>, "None">>, <<<<2, 5>>, <<1, 3>>, "None">>,
      <<<<7, 3>>, <<1, 3>>, "None">>, <<<<1, 4>>, <<3, 6>>, "None">>,
      <<<<6, 4>>, <<5, 4>>, "None">>, <<<<3, 6>>, <<5, 4>>, "None">>,
      <<<<6, 5>>, <<5, 4>>, "None">>, <<<<2, 0>>, <<7, 5>>, "None">>,
      <<<<1, 3>>, <<1, 0>>, "None">>, <<<<7, 5>>, <<6, 6>>, "None">>,
      <<<<7, 6>>, <<6, 4>>, "None">>, <<<<6, 6>>, <<7, 7>>, "None">>,
      <<<<5, 2>>, <<3, 1>>, "None">>, <<<<0, 1>>, <<6, 7>>, "None">>,
      <<<<3, 1>>, <<2, 3>>, "None">>, <<<<6, 7>>, <<6, 4>>, "None">>,
      <<<<2, 3>>, <<1, 5>>, "None">>, <<<<0, 5>>, <<1, 5>>, "None">>,
      <<<<1, 0>>, <<1, 5>>, "None">>, <<<<0, 6>>, <<1, 5>>, "None">>
    >>

\* OpeningP: 21 half-moves
\*   g1f3 d7d5 g2g3 d5d4 e2e4 d4e3 d2e3 e7e5 f1g2 f8b4 c2c3 b4c3 b2c3
\*   d8d1 e1d1 g8f6 f3e5 b8d7 g2b7 d7e5 b7a8
OpeningP ==
    <<
      <<<<7, 6>>, <<5, 5>>, "None">>, <<<<1, 3>>, <<3, 3>>, "None">>,
      <<<<6, 6>>, <<5, 6>>, "None">>, <<<<3, 3>>, <<4, 3>>, "None">>,
      <<<<6, 4>>, <<4, 4>>, "None">>, <<<<4, 3>>, <<5, 4>>, "None">>,
      <<<<6, 3>>, <<5, 4>>, "None">>, <<<<1, 4>>, <<3, 4>>, "None">>,
      <<<<7, 5>>, <<6, 6>>, "None">>, <<<<0, 5>>, <<4, 1>>, "None">>,
      <<<<6, 2>>, <<5, 2>>, "None">>, <<<<4, 1>>, <<5, 2>>, "None">>,
      <<<<6, 1>>, <<5, 2>>, "None">>, <<<<0, 3>>, <<7, 3>>, "None">>,
      <<<<7, 4>>, <<7, 3>>, "None">>, <<<<0, 6>>, <<2, 5>>, "None">>,
      <<<<5, 5>>, <<3, 4>>, "None">>, <<<<0, 1>>, <<1, 3>>, "None">>,
      <<<<6, 6>>, <<1, 1>>, "None">>, <<<<1, 3>>, <<3, 4>>, "None">>,
      <<<<1, 1>>, <<0, 0>>, "None">>
    >>

\* GameC: 59 half-moves, then 10 legal moves for b
\*   c7c6 a8c6 e5c6 c3c4 h7h6 c4c5 a7a6 a2a4 a6a5 g3g4 c8g4 f2f3 g4f3
\*   d1c2 f3h1 h2h3 g7g6 h3h4 h6h5 e3e4 f6e4 b1c3 e4c3 c2c3 f7f5 c3b2
\*   c6b8 c5c6 b8c6 c1e3 g6g5 a1h1 g5h4 h1h4 f5f4 e3f4 c6e5 f4e5
GameC ==
    OpeningP \o
    <<
      <<<<1, 2>>, <<2, 2>>, "None">>, <<<<0, 0>>, <<2, 2>>, "None">>,
      <<<<3, 4>>, <<2, 2>>, "None">>, <<<<5, 2>>, <<4, 2>>, "None">>,
      <<<<1, 7>>, <<2, 7>>, "None">>, <<<<4, 2>>, <<3, 2>>, "None">>,
      <<<<1, 0>>, <<2, 0>>, "None">>, <<<<6, 0>>, <<4, 0>>, "None">>,
      <<<<2, 0>>, <<3, 0>>, "None">>, <<<<5, 6>>, <<4, 6>>, "None">>,
      <<<<0, 2>>, <<4, 6>>, "None">>, <<<<6, 5>>, <<5, 5>>, "None">>,
      <<<<4, 6>>, <<5, 5>>, "None">>, <<<<7, 3>>, <<6, 2>>, "None">>,
      <<<<5, 5>>, <<7, 7>>, "None">>, <<<<6, 7>>, <<5, 7>>, "None">>,
      <<<<1, 6>>, <<2, 6>>, "None">>, <<<<5, 7>>, <<4, 7>>, "None">>,
      <<<<2, 7>>, <<3, 7>>, "None">>, <<<<5, 4>>, <<4, 4>>, "None">>,
      <<<<2, 5>>, <<4, 4>>, "None">>, <<<<7, 1>>, <<5, 2>>, "None">>,
      <<<<4, 4>>, <<5, 2>>, "None">>, <<<<6, 2>>, <<5, 2>>, "None">>,
      <<<<1, 5>>, <<3, 5>>, "None">>, <<<<5, 2>>, <<6, 1>>, "None">>,
      <<<<2, 2>>, <<0, 1>>, "None">>, <<<<3, 2>>, <<2, 2>>, "None">>,
      <<<<0, 1>>, <<2, 2>>, "None">>, <<<<7, 2>>, <<5, 4>>, "None">>,
      <<<<2, 6>>, <<3, 6>>, "None">>, <<<<7, 0>>, <<7, 7>>, "None">>,
      <<<<3, 6>>, <<4, 7>>, "None">>, <<<<7, 7>>, <<4, 7>>, "None">>,
      <<<<3, 5>>, <<4, 5>>, "None">>, <<<<5, 4>>, <<4, 5>>, "None">>,
      <<<<2, 2>>, <<3, 4>>, "None">>, <<<<4, 5>>, <<3, 4>>, "None">>
    >>

\* GameD: 68 half-moves, then 19 legal moves for w
\*   h7h5 f2f4 g7g6 f4e5 a7a5 e5f6 c7c5 c3c4 h8h6 h2h4 g6g5 h4g5 h6f6
\*   g5f6 h5h4 h1h4 a5a4 e3e4 e8f8 g3g4 c8g4 h4g4 a4a3 c1a3 f8e8 a3c5
\*   e8d7 a2a3 d7e6 e4e5 e6e5 a3a4 e5f6 a4a5 f6f5 a5a6 f5g4 a6a7 f7f6
\*   c5b4 f6f5 c4c5 f5f4 a1a5 f4f3 a8f3 g4f3
GameD ==
    OpeningP \o
    <<
      <<<<1, 7>>, <<3, 7>>, "None">>, <<<<6, 5>>, <<4, 5>>, "None">>,
      <<<<1, 6>>, <<2, 6>>, "None">>, <<<<4, 5>>, <<3, 4>>, "None">>,
      <<<<1, 0>>, <<3, 0>>, "None">>, <<<<3, 4>>, <<2, 5>>, "None">>,
      <<<<1, 2>>, <<3, 2>>, "None">>, <<<<5, 2>>, <<4, 2>>, "None">>,
      <<<<0, 7>>, <<2, 7>>, "None">>, <<<<6, 7>>, <<4, 7>>, "None">>,
      <<<<2, 6>>, <<3, 6>>, "None">>, <<<<4, 7>>, <<3, 6>>, "None">>,
      <<<<2, 7>>, <<2, 5>>, "None">>, <<<<3, 6>>, <<2, 5>>, "None">>,
      <<<<3, 7>>, <<4, 7>>, "None">>, <<<<7, 7>>, <<4, 7>>, "None">>,
      <<<<3, 0>>, <<4, 0>>, "None">>, <<<<5, 4>>, <<4, 4>>, "None">>,
      <<<<0, 4>>, <<0, 5>>, "None">>, <<<<5, 6>>, <<4, 6>>, "None">>,
      <<<<0, 2>>, <<4, 6>>, "None">>, <<<<4, 7>>, <<4, 6>>, "None">>,
      <<<<4, 0>>, <<5, 0>>, "None">>, <<<<7, 2>>, <<5, 0>>, "None">>,
      <<<<0, 5>>, <<0, 4>>, "None">>, <<<<5, 0>>, <<3, 2>>, "None">>,
      <<<<0, 4>>, <<1, 3>>, "None">>, <<<<6, 0>>, <<5, 0>>, "None">>,
      <<<<1, 3>>, <<2, 4>>, "None">>, <<<<4, 4>>, <<3, 4>>, "None">>,
      <<<<2, 4>>, <<3, 4>>, "None">>, <<<<5, 0>>, <<4, 0>>, "None">>,
      <<<<3, 4>>, <<2, 5>>, "None">>, <<<<4, 0>>, <<3, 0>>, "None">>,
      <<<<2, 5>>, <<3, 5>>, "None">>, <<<<3, 0>>, <<2, 0>>, "None">>,
      <<<<3, 5>>, <<4, 6>>, "None">>, <<<<2, 0>>, <<1, 0>>, "None">>,
      <<<<1, 5>>, <<2, 5>>, "None">>, <<<<3, 2>>, <<4, 1>>, "None">>,
      <<<<2, 5>>, <<3, 5>>, "None">>, <<<<4, 2>>, <<3, 2>>, "None">>,
      <<<<3, 5>>, <<4, 5>>, "None">>, <<<<7, 0>>, <<3, 0>>, "None">>,
      <<<<4, 5>>, <<5, 5>>, "None">>, <<<<0, 0>>, <<5, 5>>, "None">>,
      <<<<4, 6>>, <<5, 5>>, "None">>
    >>

\* OpeningQ: 11 half-moves
\*   d2d4 c7c5 d4c5 d7d5 a2a3 d5d4 a3a4 d8a5 c2c3 e8d8 e2e4
OpeningQ ==
    <<
      <<<<6, 3>>, <<4, 3>>, "None">>, <<<<1, 2>>, <<3, 2>>, "None">>,
      <<<<4, 3>>, <<3, 2>>, "None">>, <<<<1, 3>>, <<3, 3>>, "None">>,
      <<<<6, 0>>, <<5, 0>>, "None">>, <<<<3, 3>>, <<4, 3>>, "None">>,
      <<<<5, 0>>, <<4, 0>>, "None">>, <<<<0, 3>>, <<3, 0>>, "None">>,
      <<<<6, 2>>, <<5, 2>>, "None">>, <<<<0, 4>>, <<0, 3>>, "None">>,
      <<<<6, 4>>, <<4, 4>>, "None">>
    >>

\* GameE: 61 half-moves, then 8 legal moves for b
\*   a5c5 d1d4 c5d4 c3d4 b7b5 a4b5 h7h6 a1a7 a8a7 c1h6 h8h6 g2g4 c8g4
\*   f2f3 g4f3 g1f3 h6h2 f3h2 a7c7 d4d5 e7e5 b2b4 f8b4 e1d1 f7f6 b5b6
\*   c7a7 b6a7 d8c8 a7b8N c8b8 d5d6 b4d6 f1d3 g8e7 h2f3 g7g5 f3e5 f6e5
\*   h1h6 g5g4 h6d6 g4g3 d6a6 g3g2 d3e2 g2g1N a6a7 g1e2 a7e7
GameE ==
    OpeningQ \o
    <<
      <<<<3, 0>>, <<3, 2>>, "None">>, <<<<7, 3>>, <<4, 3>>, "None">>,
      <<<<3, 2>>, <<4, 3>>, "None">>, <<<<5, 2>>, <<4, 3>>, "None">>,
      <<<<1, 1>>, <<3, 1>>, "None">>, <<<<4, 0>>, <<3, 1>>, "None">>,
      <<<<1, 7>>, <<2, 7>>, "None">>, <<<<7, 0>>, <<1, 0>>, "None">>,
      <<<<0, 0>>, <<1, 0>>, "None">>, <<<<7, 2>>, <<2, 7>>, "None">>,
      <<<<0, 7>>, <<2, 7>>, "None">>, <<<<6, 6>>, <<4, 6>>, "None">>,
      <<<<0, 2>>, <<4, 6>>, "None">>, <<<<6, 5>>, <<5, 5>>, "None">>,
      <<<<4, 6>>, <<5, 5>>, "None">>, <<<<7, 6>>, <<5, 5>>, "None">>,
      <<<<2, 7>>, <<6, 7>>, "None">>, <<<<5, 5>>, <<6, 7>>, "None">>,
      <<<<1, 0>>, <<1, 2>>, "None">>, <<<<4, 3>>, <<3, 3>>, "None">>,
      <<<<1, 4>>, <<3, 4>>, "None">>, <<<<6, 1>>, <<4, 1>>, "None">>,
      <<<<0, 5>>, <<4, 1>>, "None">>, <<<<7, 4>>, <<7, 3>>, "None">>,
      <<<<1, 5>>, <<2, 5>>, "None">>, <<<<3, 1>>, <<2, 1>>, "None">>,
      <<<<1, 2>>, <<1, 0>>, "None">>, <<<<2, 1>>, <<1, 0>>, "None">>,
      <<<<0, 3>>, <<0, 2>>, "None">>, <<<<1, 0>>, <<0, 1>>, "N">>,
      <<<<0, 2>>, <<0, 1>>, "None">>, <<<<3, 3>>, <<2, 3>>, "None">>,
      <<<<4, 1>>, <<2, 3>>, "None">>, <<<<7, 5>>, <<5, 3>>, "None">>,
      <<<<0, 6>>, <<1, 4>>, "None">>, <<<<6, 7>>, <<5, 5>>, "None">>,
      <<<<1, 6>>, <<3, 6>>, "None">>, <<<<5, 5>>, <<3, 4>>, "None">>,
      <<<<2, 5>>, <<3, 4>>, "None">>, <<<<7, 7>>, <<2, 7>>, "None">>,
      <<<<3, 6>>, <<4, 6>>, "None">>, <<<<2, 7>>, <<2, 3>>, "None">>,
      <<<<4, 6>>, <<5, 6>>, "None">>, <<<<2, 3>>, <<2, 0>>, "None">>,
      <<<<5, 6>>, <<6, 6>>, "None">>, <<<<5, 3>>, <<6, 4>>, "None">>,
      <<<<6, 6>>, <<7, 6>>, "N">>, <<<<2, 0>>, <<1, 0>>, "None">>,
      <<<<7, 6>>, <<6, 4>>, "None">>, <<<<1, 0>>, <<1, 4>>, "None">>
    >>

\* GameF: 53 half-moves, then 11 legal moves for b
\*   a5c3 b1c3 f7f6 d1d4 c8d7 d4d7 b8d7 c5c6 b7c6 f2f4 f6f5 e4f5 e7e6
\*   f5e6 a7a6 e6d7 d8d7 f1a6 a8a6 h2h4 a6a4 c3a4 c6c5 a4c5 f8c5 g2g3
\*   c5g1 h1g1 h7h6 f4f5 d7c7 c1h6 h8h6 h4h5 h6h5 b2b4 h5f5 g3g4 g7g5
\*   g4f5 g5g4 g1g4
GameF ==
    OpeningQ \o
    <<
      <<<<3, 0>>, <<5, 2>>, "None">>, <<<<7, 1>>, <<5, 2>>, "None">>,
      <<<<1, 5>>, <<2, 5>>, "None">>, <<<<7, 3>>, <<4, 3>>, "None">>,
      <<<<0, 2>>, <<1, 3>>, "None">>, <<<<4, 3>>, <<1, 3>>, "None">>,
      <<<<0, 1>>, <<1, 3>>, "None">>, <<<<3, 2>>, <<2, 2>>, "None">>,
      <<<<1, 1>>, <<2, 2>>, "None">>, <<<<6, 5>>, <<4, 5>>, "None">>,
      <<<<2, 5>>, <<3, 5>>, "None">>, <<<<4, 4>>, <<3, 5>>, "None">>,
      <<<<1, 4>>, <<2, 4>>, "None">>, <<<<3, 5>>, <<2, 4>>, "None">>,
      <<<<1, 0>>, <<2, 0>>, "None">>, <<<<2, 4>>, <<1, 3>>, "None">>,
      <<<<0, 3>>, <<1, 3>>, "None">>, <<<<7, 5>>, <<2, 0>>, "None">>,
      <<<<0, 0>>, <<2, 0>>, "None">>, <<<<6, 7>>, <<4, 7>>, "None">>,
      <<<<2, 0>>, <<4, 0>>, "None">>, <<<<5, 2>>, <<4, 0>>, "None">>,
      <<<<2, 2>>, <<3, 2>>, "None">>, <<<<4, 0>>, <<3, 2>>, "None">>,
      <<<<0, 5>>, <<3, 2>>, "None">>, <<<<6, 6>>, <<5, 6>>, "None">>,
      <<<<3, 2>>, <<7, 6>>, "None">>, <<<<7, 7>>, <<7, 6>>, "None">>,
      <<<<1, 7>>, <<2, 7>>, "None">>, <<<<4, 5>>, <<3, 5>>, "None">>,
      <<<<1, 3>>, <<1, 2>>, "None">>, <<<<7, 2>>, <<2, 7>>, "None">>,
      <<<<0, 7>>, <<2, 7>>, "None">>, <<<<4, 7>>, <<3, 7>>, "None">>,
      <<<<2, 7>>, <<3, 7>>, "None">>, <<<<6, 1>>, <<4, 1>>, "None">>,
      <<<<3, 7>>, <<3, 5>>, "None">>, <<<<5, 6>>, <<4, 6>>, "None">>,
      <<<<1, 6>>, <<3, 6>>, "None">>, <<<<4, 6>>, <<3, 5>>, "None">>,
      <<<<3, 6>>, <<4, 6>>, "None">>, <<<<7, 6>>, <<4, 6>>, "None">>
    >>

\* GameG: 25 half-moves, then 1 legal move for b
\*   h2h4 g7g5 h4g5 h7h6 g5h6 e7e6 h6h7 e6e5 h7g8Q h8h1 d2d4 d7d6 c2c4
\*   c8f5 c4c5 d6c5 b1c3 a7a6 c1e3 a6a5 d1d2 a5a4 e1c1 a4a3 g8f7
GameG ==
    <<
      <<<<6, 7>>, <<4, 7>>, "None">>, <<<<1, 6>>, <<3, 6>>, "None">>,
      <<<<4, 7>>, <<3, 6>>, "None">>, <<<<1, 7>>, <<2, 7>>, "None">>,
      <<<<3, 6>>, <<2, 7>>, "None">>, <<<<1, 4>>, <<2, 4>>, "None">>,
      <<<<2, 7>>, <<1, 7>>, "None">>, <<<<2, 4>>, <<3, 4>>, "None">>,
      <<<<1, 7>>, <<0, 6>>, "Q">>, <<<<0, 7>>, <<7, 7>>, "None">>,
      <<<<6, 3>>, <<4, 3>>, "None">>, <<<<1, 3>>, <<2, 3>>, "None">>,
      <<<<6, 2>>, <<4, 2>>, "None">>, <<<<0, 2>>, <<3, 5>>, "None">>,
      <<<<4, 2>>, <<3, 2>>, "None">>, <<<<2, 3>>, <<3, 2>>, "None">>,
      <<<<7, 1>>, <<5, 2>>, "None">>, <<<<1, 0>>, <<2, 0>>, "None">>,
      <<<<7, 2>>, <<5, 4>>, "None">>, <<<<2, 0>>, <<3, 0>>, "None">>,
      <<<<7, 3>>, <<6, 3>>, "None">>, <<<<3, 0>>, <<4, 0>>, "None">>,
      <<<<7, 4>>, <<7, 2>>, "None">>, <<<<4, 0>>, <<5, 0>>, "None">>,
      <<<<0, 6>>, <<1, 5>>, "None">>
    >>

\* GameH: 11 half-moves, then 0 legal moves for b
\*   e2e3 h7h5 f1c4 h5h4 g1f3 h4h3 a2a3 h3g2 f3e5 a7a6 c4f7
GameH ==
    <<
      <<<<6, 4>>, <<5, 4>>, "None">>, <<<<1, 7>>, <<3, 7>>, "None">>,
      <<<<7, 5>>, <<4, 2>>, "None">>, <<<<3, 7>>, <<4, 7>>, "None">>,
      <<<<7, 6>>, <<5, 5>>, "None">>, <<<<4, 7>>, <<5, 7>>, "None">>,
      <<<<6, 0>>, <<5, 0>>, "None">>, <<<<5, 7>>, <<6, 6>>, "None">>,
      <<<<5, 5>>, <<3, 4>>, "None">>, <<<<1, 0>>, <<2, 0>>, "None">>,
      <<<<4, 2>>, <<1, 5>>, "None">>
    >>

Games == {GameA, GameB, GameC, GameD, GameE, GameF, GameG, GameH}

\* ------------------------------------------------------------ objects
\* The dicts of a GameState are objects: heap maps the identity of each live
\* dict to its contents, and a GameState object holds identities in its board
\* and castling_rights fields.

Max(S) == CHOOSE x \in S : \A y \in S : y <= x

\* dict(source) returning the object source itself instead of a copy.
dict_same_object(source, fresh) == source

\* dict(source): a new object, of identity fresh, with the items of source.
dict(source, fresh) == fresh

\* The GameState value an object denotes in heap h.
Deref(h, r) ==
    [board           |-> h[r.board],
     current         |-> r.current,
     castling_rights |-> [w |-> h[h[r.castling_rights].w],
                          b |-> h[h[r.castling_rights].b]],
     en_passant      |-> r.en_passant]

\* The identities of the dicts reachable from a GameState object.
DictsOf(h, r) ==
    {r.board, r.castling_rights, h[r.castling_rights].w, h[r.castling_rights].b}

\* initial_state() as objects.
initial_heap ==
    (1 :> initial_board) @@ (2 :> [w |-> 3, b |-> 4])
    @@ (3 :> initial_state.castling_rights.w)
    @@ (4 :> initial_state.castling_rights.b)

initial_object ==
    [board |-> 1, current |-> initial_state.current,
     castling_rights |-> 2, en_passant |-> initial_state.en_passant]

\* apply_move on objects: board and the two inner rights maps are made by
\* dict(...), new_castling is a new dict, every write of lines 285-337 goes
\* to these, and the result is a new GameState holding them. next is the
\* value apply_move computes.
apply_move_objects(h, r, next) ==
    LET top          == Max(DOMAIN h)
        board        == dict(r.board, top + 1)
        w            == dict(h[r.castling_rights].w, top + 2)
        b            == dict(h[r.castling_rights].b, top + 3)
        new_castling == top + 4
        written      == (board :> next.board)
                        @@ (w :> next.castling_rights.w)
                        @@ (b :> next.castling_rights.b)
                        @@ (new_castling :> [w |-> w, b |-> b])
    IN  [heap  |-> [id \in DictsOf(h, r) \cup DOMAIN written |->
                       IF id \in DOMAIN written THEN written[id] ELSE h[id]],
         state |-> [board |-> board, current |-> next.current,
                    castling_rights |-> new_castling,
                    en_passant |-> next.en_passant]]

VARIABLES
    state,    \* ChessGUI.state, the current GameState
    heap,     \* the contents of the live dict objects
    ref,      \* the GameState object self.state holds
    prev_ref, \* the GameState object the last apply_move was given
    legal,    \* legal_moves(state, state.current), as on_click computes it
    prev,     \* the GameState the last apply_move was given
    move,     \* the last apply_move's <<start, end, promotion_choice>>
    script,   \* the scripted game being followed
    ply,      \* half-moves played so far
    selected,    \* ChessGUI.selected
    highlighted, \* ChessGUI.highlighted
    status_var,  \* ChessGUI.status_var, the text of the status label
    queried      \* the engine queries ChessGUI has made on self.state since
                 \* it last assigned it

vars == <<state, heap, ref, prev_ref, legal, prev, move, script, ply,
          selected, highlighted, status_var, queried>>

Init ==
    /\ state = initial_state
    /\ heap = initial_heap
    /\ ref = initial_object
    /\ prev_ref = initial_object
    /\ legal = legal_moves(initial_state, initial_state.current)
    /\ prev = initial_state
    /\ move = NoMove
    /\ script \in Games
    /\ ply = 0
    /\ selected = NoSquare
    /\ highlighted = <<>>
    /\ status_var = "Beyaz baslar."
    /\ queried = {}

\* prompt_promotion handing back the answer as it is, None when dismissed.
prompt_promotion_unset(answer) == answer

\* prompt_promotion: the StringVar starts as "Q" and a button sets its kind;
\* answer is the button pressed, None when the window is closed without one.
prompt_promotion(answer) == IF answer = NoChoice THEN "Q" ELSE answer

\* prompt_promotion is asked only for a pawn reaching the last rank; every
\* other move passes None.
PromotionChoice(piece, end, choice) ==
    IF IsPromotion(piece, end)
    THEN \E answer \in PromotionChoices \cup {NoChoice} :
            choice = prompt_promotion(answer)
    ELSE choice = NoChoice

Scripted(start, end, choice) ==
    IF ply < Len(script) THEN script[ply + 1] = <<start, end, choice>>
    ELSE ply < Len(script) + MaxFree

\* ChessGUI.apply_selected_move for the pair (start, end) of legal_moves.
apply_selected_move(start, end, choice) ==
    /\ PromotionChoice(At(state.board, start), end, choice)
    /\ Scripted(start, end, choice)
    /\ \E next \in {apply_move(state, start, end, choice)} :
         \E moves \in {legal_moves(next, next.current)} :
            \E objects \in {apply_move_objects(heap, ref, next)} :
                /\ state' = next
                /\ legal' = moves
                /\ heap' = objects.heap
                /\ ref' = objects.state
    /\ prev_ref' = ref
    /\ prev' = state
    /\ move' = <<start, end, choice>>
    /\ ply' = ply + 1
    /\ UNCHANGED script

\* Lines 474-475: the status label names the side to move.  The texts are
\* the program's, written without their diacritics.
StatusText(current) ==
    IF current = "w" THEN "Sira: Beyaz" ELSE "Sira: Siyah"

\* Lines 470-475 for a pair of legal_moves: the move is applied and the
\* status label set; nothing has been asked about the new self.state yet.
Next ==
    \E i \in 1..Len(legal) : \E choice \in PromotionChoices \cup {NoChoice} :
        /\ apply_selected_move(legal[i][1], legal[i][2], choice)
        /\ status_var' = StatusText(state'.current)
        /\ queried' = {}
        /\ UNCHANGED <<selected, highlighted>>

Spec == Init /\ [][Next]_vars

\* ------------------------------------------------------------ on_click

\* The x and y of a click: the middle of each of the 8 columns or rows of
\* 80 pixels, and one pixel off the canvas on either side.
Pixels == {0 - 1, 640} \cup {80 * k + 40 : k \in 0..7}

\* The comprehension without its test start == square.
HighlightsOfAll(moves, square) == [i \in 1..Len(moves) |-> moves[i][2]]

\* [end for start, end in legal_moves(...) if start == square]
Highlights(moves, square) ==
    LET from == SelectSeq(moves, LAMBDA m : m[1] = square)
    IN  [i \in 1..Len(from) |-> from[i][2]]

\* Lines 454-461 and 479-484: square becomes the selection.
Select(square) ==
    /\ selected' = square
    /\ highlighted' = Highlights(legal, square)
    /\ queried' = queried \cup {"legal_moves"}
    /\ UNCHANGED <<state, heap, ref, prev_ref, legal, prev, move, script, ply,
                   status_var>>

\* on_click also letting any piece but a king go to any empty square.
AppliesToEmpty(pair) ==
    \/ Contains(legal, pair)
    \/ At(state.board, pair[1]).kind # "K" /\ ~DictHas(state.board, pair[2])

\* Line 470: (self.selected, square) in legal_moves(self.state, current).
Applies(pair) == Contains(legal, pair)

\* ChessGUI.on_click for a click at pixel (x, y).
on_click(x, y) ==
    LET col    == x \div 80
        row    == y \div 80
        square == <<row, col>>
    IN  IF ~in_bounds(square) THEN UNCHANGED vars
        ELSE LET piece == At(state.board, square) IN
             IF selected = NoSquare
             THEN IF piece = NoPiece \/ piece.color # state.current
                  THEN UNCHANGED vars
                  ELSE Select(square)
             ELSE IF square = selected
             THEN /\ selected' = NoSquare
                  /\ highlighted' = <<>>
                  /\ UNCHANGED <<state, heap, ref, prev_ref, legal, prev, move,
                                 script, ply, status_var, queried>>
             ELSE IF Applies(<<selected, square>>)
             THEN /\ \E choice \in PromotionChoices \cup {NoChoice} :
                        apply_selected_move(selected, square, choice)
                  /\ selected' = NoSquare
                  /\ highlighted' = <<>>
                  /\ status_var' = StatusText(state'.current)
                  /\ queried' = {}
             ELSE IF piece # NoPiece /\ piece.color = state.current
             THEN Select(square)
             ELSE /\ queried' = queried \cup {"legal_moves"}
                  /\ UNCHANGED <<state, heap, ref, prev_ref, legal, prev, move,
                                 script, ply, selected, highlighted, status_var>>

NextGUI == \E x \in Pixels : \E y \in Pixels : on_click(x, y)

\* The games played click by click.
ClickedGames == {GameB, GameD, GameH}

InitGUI == Init /\ script \in ClickedGames

SpecGUI == InitGUI /\ [][NextGUI]_vars

\* ------------------------------------------------------------ properties

Sides == {"K", "Q"}

\* The rook's home corner a castling right belongs to (lines 320-337).
HomeCorner(color, side) ==
    <<IF color = "w" THEN 7 ELSE 0, IF side = "K" THEN 7 ELSE 0>>

Moved == move # NoMove

\* The piece the last apply_move moved, and what stood on its destination.
MovedPiece == At(prev.board, move[1])

CapturedPiece == At(prev.board, move[2])

\* legal_moves(state, color); the side to move's list is the one in legal.
LegalMovesOf(color) ==
    IF color = state.current THEN legal ELSE legal_moves(state, color)

\* C1: for either color, no pair returned by legal_moves(state, color)
\* leaves that color's own king attacked once apply_move has applied it.
C1_LegalMovesLeaveNoCheck ==
    \A color \in Colors : \A moves \in {LegalMovesOf(color)} :
        \A i \in 1..Len(moves) :
            \A next \in {apply_move(state, moves[i][1], moves[i][2], NoChoice)} :
                ~is_in_check(next, color)

\* C1 witness: the mover was in check and the move played answered it.
C1_Witness ==
    /\ Moved
    /\ is_in_check(prev, prev.current)
    /\ ~is_in_check(state, prev.current)

\* C2 as claimed: a move of a pawn, knight, bishop or queen leaves the
\* castling rights of both colors as they were.
C2_Claimed ==
    (Moved /\ MovedPiece.kind \notin {"K", "R"})
        => state.castling_rights = prev.castling_rights

\* C2 amended: a move of a pawn, knight, bishop or queen changes no castling
\* right, except that capturing a rook standing on a home corner clears the
\* right of that corner.
C2_NonKingRookMoveRights ==
    (Moved /\ MovedPiece.kind \notin {"K", "R"})
        => \A color \in Colors : \A side \in Sides :
              state.castling_rights[color][side] =
                 (/\ prev.castling_rights[color][side]
                  /\ ~(CapturedPiece.kind = "R"
                       /\ move[2] = HomeCorner(color, side)))

\* C2 witness: a bishop, knight, queen or pawn took a rook on its home corner
\* while that corner's right was still held, and the right is gone.
C2_Witness ==
    /\ Moved
    /\ MovedPiece.kind \notin {"K", "R"}
    /\ CapturedPiece.kind = "R"
    /\ \E color \in Colors : \E side \in Sides :
          /\ move[2] = HomeCorner(color, side)
          /\ prev.castling_rights[color][side]
          /\ ~state.castling_rights[color][side]

\* C3: a castling right that is false stays false over every apply_move.
C3_RightsMonotone ==
    [][\A color \in Colors : \A side \in Sides :
          ~state.castling_rights[color][side]
              => ~state'.castling_rights[color][side]]_vars

\* C3 witness: a king that gave up its rights by moving stands on its home
\* square again, and its rights are still false.
C3_Witness ==
    /\ Moved
    /\ \E color \in Colors :
          /\ At(state.board, <<IF color = "w" THEN 7 ELSE 0, 4>>) = Piece(color, "K")
          /\ ~prev.castling_rights[color].K
          /\ ~prev.castling_rights[color].Q
          /\ ~state.castling_rights[color].K
          /\ ~state.castling_rights[color].Q

\* White's kingside castling squares as the claim describes them: king on
\* (7,4), right K held, (7,5) and (7,6) empty and not attacked by Black.
KingsideOpen(s) ==
    /\ At(s.board, <<7, 4>>) = Piece("w", "K")
    /\ s.castling_rights.w.K
    /\ ~DictHas(s.board, <<7, 5>>)
    /\ ~DictHas(s.board, <<7, 6>>)
    /\ \A attacked \in {attacks(s.board, "b")} :
          /\ ~Contains(attacked, <<7, 5>>)
          /\ ~Contains(attacked, <<7, 6>>)

\* (7,4)->(7,6) is in legal_moves(state, White), and applying it puts the
\* king on (7,6), the rook of (7,7) on (7,5), and clears both White rights.
KingsideCastles(s, moves) ==
    /\ Contains(moves, <<<<7, 4>>, <<7, 6>>>>)
    /\ \A next \in {apply_move(s, <<7, 4>>, <<7, 6>>, NoChoice)} :
          /\ At(next.board, <<7, 6>>) = Piece("w", "K")
          /\ At(next.board, <<7, 5>>) = Piece("w", "R")
          /\ ~DictHas(next.board, <<7, 4>>)
          /\ ~DictHas(next.board, <<7, 7>>)
          /\ next.castling_rights.w = [K |-> FALSE, Q |-> FALSE]
          /\ next.castling_rights.b = s.castling_rights.b

\* C4 as claimed: whenever the kingside squares are as described, the
\* castling move is offered and has the described effect.
C4_Claimed ==
    KingsideOpen(state) => KingsideCastles(state, LegalMovesOf("w"))

\* C4 amended: whenever the kingside squares are as described and White is
\* not in check, legal_moves(state, White) includes (7,4)->(7,6), and applying
\* it puts the king on (7,6), moves the rook from (7,7) to (7,5) and clears
\* both White rights.
C4_KingsideCastling ==
    (KingsideOpen(state) /\ ~is_in_check(state, "w"))
        => KingsideCastles(state, LegalMovesOf("w"))

\* C4 witness: White has just castled kingside from such a position.
C4_Witness ==
    /\ Moved
    /\ move[1] = <<7, 4>>
    /\ move[2] = <<7, 6>>
    /\ KingsideOpen(prev)
    /\ At(state.board, <<7, 5>>) = Piece("w", "R")

\* The last move was a pawn's double step.
DoubleStepped == Moved /\ MovedPiece.kind = "P" /\ Abs(move[2][1] - move[1][1]) = 2

\* The square the double-stepped pawn passed over.
PassedOver == <<(move[1][1] + move[2][1]) \div 2, move[2][2]>>

\* The squares beside the landing square that hold a pawn of the side to move.
PawnsBeside ==
    {from \in {<<move[2][1], move[2][2] - 1>>, <<move[2][1], move[2][2] + 1>>} :
        in_bounds(from) /\ At(state.board, from) = Piece(state.current, "P")}

\* apply_move for the en-passant capture from the square from: the capturing
\* pawn stands on the passed-over square, its origin and the landing square
\* of the double step are empty, every other square is as before.
EnPassantEffect(from) ==
    \A next \in {apply_move(state, from, PassedOver, NoChoice)} :
        \A row \in 0..7 : \A col \in 0..7 :
            At(next.board, <<row, col>>) =
                IF <<row, col>> = PassedOver THEN Piece(state.current, "P")
                ELSE IF <<row, col>> \in {from, move[2]} THEN NoPiece
                ELSE At(state.board, <<row, col>>)

\* C5 as claimed: after a double step with an opposing pawn beside the
\* landing square, legal_moves for the opponent includes that pawn's move onto
\* the passed-over square, and applying it removes the double-stepped pawn only.
C5_Claimed ==
    DoubleStepped
        => \A from \in PawnsBeside :
              /\ Contains(legal, <<from, PassedOver>>)
              /\ EnPassantEffect(from)

\* C5 amended: after a double step with an opposing pawn beside the landing
\* square, pawn_moves offers that pawn's move onto the passed-over square, and
\* legal_moves includes it exactly when it does not leave the capturer's own
\* king in check; applying it removes the double-stepped pawn from its landing
\* square, puts the capturing pawn on the passed-over square and changes
\* nothing else on the board.
C5_EnPassantCapture ==
    DoubleStepped
        => \A from \in PawnsBeside :
              /\ Contains(pawn_moves(state, from, At(state.board, from)), PassedOver)
              /\ Contains(legal, <<from, PassedOver>>)
                   = ~is_in_check(apply_move(state, from, PassedOver, NoChoice),
                                  state.current)
              /\ EnPassantEffect(from)

\* C5 witness: a pawn has just captured en passant.
C5_Witness ==
    /\ Moved
    /\ MovedPiece.kind = "P"
    /\ prev.en_passant # NoSquare
    /\ move[2] = prev.en_passant
    /\ DictHas(prev.board, <<move[1][1], move[2][2]>>)
    /\ ~DictHas(state.board, <<move[1][1], move[2][2]>>)

\* C6: after apply_move the en-passant target is the passed-over square when
\* a pawn moved two rows and is empty after every other move.
C6_EnPassantTarget ==
    Moved => state.en_passant = IF DoubleStepped THEN PassedOver ELSE NoSquare

\* C6 witness: a move that was no double step followed a double step, and the
\* target the double step had set is gone.
C6_Witness ==
    /\ Moved
    /\ prev.en_passant # NoSquare
    /\ ~DoubleStepped
    /\ state.en_passant = NoSquare

\* C7: a pawn moved onto the opponent's back rank becomes a piece of its own
\* color of the chosen kind, a queen when no kind is given, and legal_moves
\* lists the move exactly once.
C7_Promotion ==
    \A i \in 1..Len(legal) :
        LET origin == legal[i][1]
            destination == legal[i][2]
            pawn == At(state.board, origin)
        IN  (pawn.kind = "P"
             /\ destination[1] = (IF pawn.color = "w" THEN 0 ELSE 7))
            => /\ \A choice \in PromotionChoices \cup {NoChoice} :
                    At(apply_move(state, origin, destination, choice).board,
                       destination)
                       = Piece(pawn.color,
                               IF choice = NoChoice THEN "Q" ELSE choice)
               /\ Cardinality({j \in 1..Len(legal) : legal[j] = legal[i]}) = 1

\* C7 witness: a Black pawn has reached row 7 and stands there as a knight.
C7_Witness ==
    /\ Moved
    /\ MovedPiece = Piece("b", "P")
    /\ move[2][1] = 7
    /\ move[3] = "N"
    /\ At(state.board, move[2]) = Piece("b", "N")

\* C8: legal_moves(initial_state(), White) has exactly 20 entries, 16 of
\* pawns and 4 of knights, none of them a capture or a castling move.
C8_InitialMoves ==
    state = initial_state
        => \A moves \in {LegalMovesOf("w")} :
              /\ Len(moves) = 20
              /\ Cardinality({moves[i] : i \in 1..Len(moves)}) = 20
              /\ Cardinality({i \in 1..Len(moves) :
                     At(state.board, moves[i][1]) = Piece("w", "P")}) = 16
              /\ Cardinality({i \in 1..Len(moves) :
                     At(state.board, moves[i][1]) = Piece("w", "N")}) = 4
              /\ \A i \in 1..Len(moves) :
                    /\ ~DictHas(state.board, moves[i][2])
                    /\ At(state.board, moves[i][1]).kind # "K"

\* C8 witness: the initial position with its list of moves computed.
C8_Witness ==
    /\ state = initial_state
    /\ ~Moved
    /\ Len(legal) > 0

\* The squares of row strictly between columns a and b.
Between(row, a, b) ==
    {<<row, col>> : col \in {c \in 0..7 : (a < c /\ c < b) \/ (b < c /\ c < a)}}

\* A back-rank mate of color: its king stands on its back rank behind its own
\* pawns, an opposing rook or queen stands on that rank with nothing between,
\* no piece of color attacks the attacker and none but the king can move onto
\* a square between.
BackRankMate(s, color) ==
    \A king \in {find_king(s.board, color)} :
        /\ king # NoSquare
        /\ king[1] = (IF color = "w" THEN 7 ELSE 0)
        /\ \A col \in {king[2] - 1, king[2], king[2] + 1} \cap 0..7 :
              At(s.board, <<IF color = "w" THEN 6 ELSE 1, col>>) = Piece(color, "P")
        /\ \E col \in 0..7 :
              /\ At(s.board, <<king[1], col>>).color = Opponent(color)
              /\ At(s.board, <<king[1], col>>).kind \in {"R", "Q"}
              /\ \A square \in Between(king[1], col, king[2]) :
                    ~DictHas(s.board, square)
              /\ ~Contains(attacks(s.board, color), <<king[1], col>>)
              /\ \A i \in 1..Len(s.board.keys) :
                    LET piece == At(s.board, s.board.keys[i]) IN
                    (piece.color = color /\ piece.kind # "K")
                        => \A moves \in {piece_moves(s, s.board.keys[i], piece)} :
                              \A square \in Between(king[1], col, king[2]) :
                                  ~Contains(moves, square)

\* C9: in a back-rank mate of color, is_in_check(state, color) is true and
\* legal_moves(state, color) is empty.
C9_BackRankMate ==
    \A color \in Colors :
        BackRankMate(state, color)
            => /\ is_in_check(state, color)
               /\ LegalMovesOf(color) = <<>>

\* C9 witness: a rook or queen has just moved and the side to move is in a
\* back-rank mate.
C9_Witness ==
    /\ Moved
    /\ MovedPiece.kind \in {"R", "Q"}
    /\ BackRankMate(state, state.current)

\* C10: once apply_move has returned, the board, the side to move, the
\* castling rights with their inner maps and the en-passant target of the
\* GameState it was given are what they were before the call, and the returned
\* GameState shares no dict with it.
C10_InputNotMutated ==
    Moved
        => /\ Deref(heap, prev_ref) = prev
           /\ DictsOf(heap, ref) \cap DictsOf(heap, prev_ref) = {}

\* C10 witness: apply_move has returned a GameState whose board and rights
\* both differ from those of the GameState it was given.
C10_Witness ==
    /\ Moved
    /\ Deref(heap, ref) = state
    /\ state.board # prev.board
    /\ state.castling_rights # prev.castling_rights

\* The last move took a rook standing on the home corner of (color, side).
RookTakenAt(color, side) ==
    CapturedPiece.kind = "R" /\ move[2] = HomeCorner(color, side)

\* The last move was a king's, or a rook's off a home corner of its color.
KingOrHomeRookMoved ==
    /\ Moved
    /\ \/ MovedPiece.kind = "K"
       \/ /\ MovedPiece.kind = "R"
          /\ \E side \in Sides : move[1] = HomeCorner(MovedPiece.color, side)

\* The right (color, side) is one the mover's own move gives up: every right
\* of a moving king, the right of the corner a rook leaves.
GivenUp(color, side) ==
    /\ color = MovedPiece.color
    /\ \/ MovedPiece.kind = "K"
       \/ MovedPiece.kind = "R" /\ move[1] = HomeCorner(color, side)

\* C11 as claimed: a king's move clears both rights of its color, a rook's
\* move off its home corner clears that corner's right, and every other right
\* is as it was.
C11_Claimed ==
    KingOrHomeRookMoved
        => \A color \in Colors : \A side \in Sides :
              state.castling_rights[color][side] =
                 (prev.castling_rights[color][side] /\ ~GivenUp(color, side))

\* C11 amended: a king's move clears both rights of its color, a rook's move
\* off its home corner clears that corner's right, and every other right is
\* as it was unless the same move takes a rook on a home corner, which clears
\* that corner's right as well.
C11_KingRookMoveRights ==
    KingOrHomeRookMoved
        => \A color \in Colors : \A side \in Sides :
              state.castling_rights[color][side] =
                 (/\ prev.castling_rights[color][side]
                  /\ ~GivenUp(color, side)
                  /\ ~RookTakenAt(color, side))

\* C11 witness: a rook has left its home corner without taking anything
\* while the corner's right was held, and the right is gone.
C11_Witness ==
    /\ Moved
    /\ MovedPiece.kind = "R"
    /\ ~DictHas(prev.board, move[2])
    /\ \E side \in Sides :
          /\ move[1] = HomeCorner(MovedPiece.color, side)
          /\ prev.castling_rights[MovedPiece.color][side]
          /\ ~state.castling_rights[MovedPiece.color][side]

\* C12: whichever piece takes an opposing rook standing on that rook's home
\* corner, the state apply_move returns has the opponent's right of that
\* corner false.
C12_CapturedRookRight ==
    \A i \in 1..Len(legal) :
        LET captured == At(state.board, legal[i][2]) IN
        \A side \in Sides :
            (/\ captured = Piece(Opponent(state.current), "R")
             /\ legal[i][2] = HomeCorner(captured.color, side))
                => \A choice \in PromotionChoices \cup {NoChoice} :
                      ~apply_move(state, legal[i][1], legal[i][2], choice)
                          .castling_rights[captured.color][side]

\* C12 witness: a rook has taken the opposing rook on its home corner while
\* that corner's right was held.
C12_Witness ==
    /\ Moved
    /\ MovedPiece.kind = "R"
    /\ CapturedPiece = Piece(Opponent(MovedPiece.color), "R")
    /\ \E side \in Sides :
          /\ move[2] = HomeCorner(CapturedPiece.color, side)
          /\ prev.castling_rights[CapturedPiece.color][side]
          /\ ~state.castling_rights[CapturedPiece.color][side]

\* C13: every apply_move the GUI makes toggles the color to move and moves a
\* piece of the color that was to move, so the moved pieces are White's on
\* odd half-moves and Black's on even ones.
C13_ColorsAlternate ==
    Moved
        => /\ state.current = Opponent(prev.current)
           /\ MovedPiece.color = prev.current
           /\ MovedPiece.color = (IF ply % 2 = 1 THEN "w" ELSE "b")

\* C13 witness: Black has answered a move of White and White is to move.
C13_Witness ==
    /\ ply >= 2
    /\ MovedPiece.color = "b"
    /\ prev.current = "b"
    /\ state.current = "w"

\* C16: whenever a click changes the game state, the new state is apply_move
\* of a pair that legal_moves(state, state.current) holds for the state the
\* click found.
C16_OnlyLegalApplied ==
    [][state' # state
          => /\ Contains(legal_moves(state, state.current),
                         <<move'[1], move'[2]>>)
             /\ state' = apply_move(state, move'[1], move'[2], move'[3])
             /\ prev' = state]_vars

\* C16 witness: a second click has applied a move and cleared the selection.
C16_Witness ==
    /\ Moved
    /\ selected = NoSquare
    /\ highlighted = <<>>
    /\ state = apply_move(prev, move[1], move[2], move[3])

\* The last move took a pawn to the last rank of its color.
ReachedLastRank ==
    /\ MovedPiece.kind = "P"
    /\ move[2][1] = (IF MovedPiece.color = "w" THEN 0 ELSE 7)

\* C17: apply_move is handed a promotion choice exactly when the move takes
\* a pawn to its last rank, and the choice is then a queen, rook, bishop or
\* knight.
C17_PromotionPrompt ==
    Moved
        => /\ (move[3] # NoChoice) = ReachedLastRank
           /\ ReachedLastRank => move[3] \in {"Q", "R", "B", "N"}

\* C17 witness: a pawn has reached its last rank and a rook was chosen.
C17_Witness ==
    /\ Moved
    /\ ReachedLastRank
    /\ move[3] = "R"
    /\ At(state.board, move[2]).kind = "R"

\* C14: every key of the board is a square with row and column in 0..7,
\* no square is a key twice, and the keys are the squares that hold a piece.
C14_KeysInBounds ==
    LET keys == state.board.keys IN
    /\ \A i \in 1..Len(keys) :
          /\ in_bounds(keys[i])
          /\ keys[i][1] \in 0..7
          /\ keys[i][2] \in 0..7
          /\ At(state.board, keys[i]) # NoPiece
          /\ \A j \in 1..Len(keys) : keys[j] = keys[i] => j = i
    /\ \A row \in 0..7 : \A col \in 0..7 :
          DictHas(state.board, <<row, col>>) => Contains(keys, <<row, col>>)

\* C14 witness: a promotion, an en-passant capture and a castling have all
\* been played: a promoted piece stands on the board, one side has castled
\* and fewer than 32 squares are occupied.
C14_Witness ==
    /\ Moved
    /\ MovedPiece.kind = "K"
    /\ Abs(move[2][2] - move[1][2]) = 2
    /\ Len(state.board.keys) < 32
    /\ \E i \in 1..Len(state.board.keys) :
          /\ At(state.board, state.board.keys[i]) = Piece("w", "Q")
          /\ state.board.keys[i] = <<0, 6>>

\* The number of squares of the board that hold piece.
CountOf(board, piece) ==
    Cardinality({i \in 1..Len(board.keys) : At(board, board.keys[i]) = piece})

\* C15: each color has exactly one king on the board, find_king finds it,
\* and no move of legal_moves lands on a king.
C15_OneKingEach ==
    /\ \A color \in Colors :
          /\ CountOf(state.board, Piece(color, "K")) = 1
          /\ find_king(state.board, color) # NoSquare
    /\ \A i \in 1..Len(legal) : At(state.board, legal[i][2]).kind # "K"

\* C15 witness: a capture has just given check, and the king in check is
\* still on the board.
C15_Witness ==
    /\ Moved
    /\ DictHas(prev.board, move[2])
    /\ is_in_check(state, state.current)
    /\ CountOf(state.board, Piece(state.current, "K")) = 1

\* The number of times the while loop of sliding_moves gets past its
\* in_bounds test on one ray: the squares it looks at up to the first piece.
RECURSIVE RaySteps(_, _, _, _, _)
RaySteps(board, row, col, dr, dc) ==
    LET next_sq == <<row + dr, col + dc>> IN
    IF ~in_bounds(next_sq) THEN 0
    ELSE IF DictHas(board, next_sq) THEN 1
         ELSE 1 + RaySteps(board, row + dr, col + dc, dr, dc)

\* The number of apply_move calls legal_moves(state, color) makes: one for
\* each target of piece_moves and castling_moves of each piece of color.
RECURSIVE ApplyMoveCalls(_, _, _)
ApplyMoveCalls(s, color, i) ==
    IF i > Len(s.board.keys) THEN 0
    ELSE LET square == s.board.keys[i]
             piece  == At(s.board, square)
         IN  (IF piece.color # color THEN 0
              ELSE Len(piece_moves(s, square, piece))
                   + Len(castling_moves(s, square, piece)))
             + ApplyMoveCalls(s, color, i + 1)

\* C18: the loops of sliding_moves and legal_moves are bounded: no ray of a
\* piece on the board takes more than 7 steps, and legal_moves makes one
\* apply_move call per candidate, at most 27 for each piece, and returns no
\* more pairs than it made calls.
C18_BoundedLoops ==
    /\ \A i \in 1..Len(state.board.keys) :
          \A j \in 1..Len(QueenDeltas) :
              RaySteps(state.board, state.board.keys[i][1],
                       state.board.keys[i][2],
                       QueenDeltas[j][1], QueenDeltas[j][2]) <= 7
    /\ \A calls \in {ApplyMoveCalls(state, state.current, 1)} :
          /\ Len(legal) <= calls
          /\ calls <= 27 * Len(state.board.keys)

\* C18 witness: a rook or queen on a corner looks along an empty edge of the
\* board, a ray of 7 steps, and legal_moves has dropped a candidate.
C18_Witness ==
    /\ \E i \in 1..Len(state.board.keys) :
          LET square == state.board.keys[i] IN
          /\ At(state.board, square).kind \in {"R", "Q"}
          /\ \E j \in 1..Len(RookDeltas) :
                /\ RaySteps(state.board, square[1], square[2],
                            RookDeltas[j][1], RookDeltas[j][2]) = 7
                /\ ~DictHas(state.board, <<square[1] + 7 * RookDeltas[j][1],
                                          square[2] + 7 * RookDeltas[j][2]>>)
    /\ Len(legal) < ApplyMoveCalls(state, state.current, 1)

\* The home row of a color's king.
HomeRow(color) == IF color = "w" THEN 7 ELSE 0

\* piece on square is a king on its home square, its color is not in check
\* and holds the right of side, the squares of columns empty are empty and
\* those of columns safe are not attacked by the opponent.
MayCastle(s, square, piece, side, empty, safe) ==
    /\ piece.kind = "K"
    /\ square = <<HomeRow(piece.color), 4>>
    /\ s.castling_rights[piece.color][side]
    /\ \A col \in empty : ~DictHas(s.board, <<HomeRow(piece.color), col>>)
    /\ ~is_in_check(s, piece.color)
    /\ \A attacked \in {attacks(s.board, Opponent(piece.color))} :
          \A col \in safe : ~Contains(attacked, <<HomeRow(piece.color), col>>)

\* C19: castling_moves offers a piece the move to column 6 of its home row
\* exactly when it is a king on its home square, not in check, holding its
\* kingside right, with columns 5 and 6 empty and not attacked.
C19_KingsideIff ==
    \A i \in 1..Len(state.board.keys) :
        LET square == state.board.keys[i]
            piece  == At(state.board, square)
        IN  Contains(castling_moves(state, square, piece),
                     <<HomeRow(piece.color), 6>>)
               = MayCastle(state, square, piece, "K", {5, 6}, {5, 6})

\* C19 witness: Black has just castled kingside, a move castling_moves
\* offered.
C19_Witness ==
    /\ Moved
    /\ MovedPiece = Piece("b", "K")
    /\ move[1] = <<0, 4>>
    /\ move[2] = <<0, 6>>
    /\ Contains(castling_moves(prev, move[1], MovedPiece), move[2])

\* C20: castling_moves offers a piece the move to column 2 of its home row
\* exactly when it is a king on its home square, not in check, holding its
\* queenside right, with columns 1, 2 and 3 empty and columns 2 and 3 not
\* attacked; column 1 may be attacked.
C20_QueensideIff ==
    \A i \in 1..Len(state.board.keys) :
        LET square == state.board.keys[i]
            piece  == At(state.board, square)
        IN  Contains(castling_moves(state, square, piece),
                     <<HomeRow(piece.color), 2>>)
               = MayCastle(state, square, piece, "Q", {1, 2, 3}, {2, 3})

\* C20 witness: White is offered queenside castling while Black attacks
\* (7,1).
C20_Witness ==
    /\ Contains(castling_moves(state, <<7, 4>>, At(state.board, <<7, 4>>)),
                <<7, 2>>)
    /\ Contains(attacks(state.board, "b"), <<7, 1>>)

\* What apply_move does with the rook when the king on start castles to end:
\* the rook of the king's color leaves its home corner for the square next
\* to the king's destination, the king lands two columns from its home
\* square.
CastlingEffect(s, start, end) ==
    LET king     == At(s.board, start)
        kingside == end[2] > start[2]
        corner   == <<start[1], IF kingside THEN 7 ELSE 0>>
        beside   == <<start[1], IF kingside THEN 5 ELSE 3>>
    IN  /\ ~ApplyMoveRaises(s, start, end)
        /\ start = <<HomeRow(king.color), 4>>
        /\ end = <<start[1], IF kingside THEN 6 ELSE 2>>
        /\ At(s.board, corner) = Piece(king.color, "R")
        /\ \A next \in {apply_move(s, start, end, NoChoice)} :
              /\ At(next.board, beside) = Piece(king.color, "R")
              /\ ~DictHas(next.board, corner)
              /\ ~DictHas(next.board, start)
              /\ At(next.board, end) = king
              /\ CountOf(next.board, Piece(king.color, "R"))
                    = CountOf(s.board, Piece(king.color, "R"))

\* C21: for every castling move in legal_moves of a reachable state (a king
\* moving two columns), apply_move takes the rook of the same color from
\* its home corner (column 7 kingside, column 0 queenside) to the square
\* next to the king's destination (column 5, column 3), leaves the corner
\* empty and puts the king two columns from its home square.
C21_CastlingRook ==
    \A i \in 1..Len(legal) :
        IsCastlingMove(At(state.board, legal[i][1]), legal[i][1], legal[i][2])
           => CastlingEffect(state, legal[i][1], legal[i][2])

\* C21 witness: Black has just castled queenside with a move of legal_moves;
\* the rook of (0,0) stands on (0,3).
C21_Witness ==
    /\ Moved
    /\ MovedPiece = Piece("b", "K")
    /\ move[1] = <<0, 4>>
    /\ move[2] = <<0, 2>>
    /\ CastlingEffect(prev, move[1], move[2])
    /\ At(state.board, <<0, 3>>) = Piece("b", "R")

\* The direction list attacks passes to sliding_moves for a kind of piece.
SlidingDeltas(kind) ==
    CASE kind = "B" -> BishopDeltas
      [] kind = "R" -> RookDeltas
      [] kind = "Q" -> QueenDeltas
      [] OTHER -> <<>>

\* The squares of board in direction delta from square, over empty squares
\* up to and including the first occupied square.
RayTo(board, square, delta) ==
    {<<square[1] + k * delta[1], square[2] + k * delta[2]>> : k \in
        {k \in 1..7 :
            /\ in_bounds(<<square[1] + k * delta[1], square[2] + k * delta[2]>>)
            /\ \A j \in 1..(k - 1) :
                  ~DictHas(board, <<square[1] + j * delta[1],
                                    square[2] + j * delta[2]>>)}}

\* The squares of all rays of the bishop, rook or queen piece on square.
RaysOf(board, square, piece) ==
    UNION {RayTo(board, square, SlidingDeltas(piece.kind)[n]) :
              n \in 1..Len(SlidingDeltas(piece.kind))}

ListSet(list) == {list[i] : i \in 1..Len(list)}

\* C22 as claimed: in attacks(board, color) every bishop, rook and queen ray
\* runs over empty squares up to and including the first occupied square,
\* whatever the color of its occupant, and no further.
C22_Claimed ==
    \A i \in 1..Len(state.board.keys) :
        LET square == state.board.keys[i]
            piece  == At(state.board, square)
        IN  piece.kind \in {"B", "R", "Q"}
               => ListSet(PieceAttacks(state.board, square, piece))
                     = RaysOf(state.board, square, piece)

\* C22: in attacks(board, color) every bishop, rook and queen ray runs over
\* empty squares up to the first occupied square and no further; it
\* includes that square when its occupant is of the other color and leaves
\* it out when the occupant is of the piece's own color.
C22_SlidingRays ==
    \A color \in Colors :
        \A attacked \in {ListSet(attacks(state.board, color))} :
            \A i \in 1..Len(state.board.keys) :
                LET square == state.board.keys[i]
                    piece  == At(state.board, square)
                    rays   == {t \in RaysOf(state.board, square, piece) :
                                  At(state.board, t).color # color}
                IN  (piece.color = color /\ piece.kind \in {"B", "R", "Q"})
                       => /\ ListSet(PieceAttacks(state.board, square, piece))
                                = rays
                          /\ rays \subseteq attacked

\* C22 witness: a bishop, rook or queen has a ray that crosses two empty
\* squares and ends on a piece of the other color, and a ray that ends on a
\* piece of its own color.
C22_Witness ==
    \E i \in 1..Len(state.board.keys) :
        LET square == state.board.keys[i]
            piece  == At(state.board, square)
            deltas == SlidingDeltas(piece.kind)
        IN  /\ piece.kind \in {"B", "R", "Q"}
            /\ \E n \in 1..Len(deltas) :
                  \E t \in RayTo(state.board, square, deltas[n]) :
                      /\ Cardinality(RayTo(state.board, square, deltas[n])) >= 3
                      /\ At(state.board, t).color = Opponent(piece.color)
                      /\ Contains(attacks(state.board, piece.color), t)
            /\ \E n \in 1..Len(deltas) :
                  \E t \in RayTo(state.board, square, deltas[n]) :
                      /\ At(state.board, t).color = piece.color
                      /\ ~Contains(PieceAttacks(state.board, square, piece), t)

\* The in-bounds squares diagonally in front of a pawn of color on square.
PawnDiagonals(square, color) ==
    {t \in {<<square[1] + PawnDirection(color), square[2] - 1>>,
            <<square[1] + PawnDirection(color), square[2] + 1>>} : in_bounds(t)}

\* The squares the pawns of color add to attacks(board, color).
PawnAttacked(board, color) ==
    UNION {PawnDiagonals(board.keys[i], color) :
              i \in {i \in 1..Len(board.keys) :
                        At(board, board.keys[i]) = Piece(color, "P")}}

\* The squares the king crosses and lands on when castling on side.
Transit(color, side) ==
    {<<HomeRow(color), col>> : col \in IF side = "K" THEN {5, 6} ELSE {2, 3}}

CastlingTarget(color, side) ==
    <<HomeRow(color), IF side = "K" THEN 6 ELSE 2>>

\* C23: in attacks(board, color) each pawn of color contributes exactly the
\* in-bounds squares diagonally in front of it (row - 1 for White, row + 1
\* for Black, column +/- 1), whatever stands on them, and never the square
\* straight ahead; so castling is not offered across a transit square
\* attacked by an opposing pawn, and no legal king move lands on a square
\* diagonally in front of an opposing pawn.
C23_PawnAttacks ==
    /\ \A color \in Colors :
          \A attacked \in {ListSet(attacks(state.board, color))} :
              \A i \in 1..Len(state.board.keys) :
                  LET square == state.board.keys[i]
                      piece  == At(state.board, square)
                  IN  piece = Piece(color, "P")
                         => /\ ListSet(PieceAttacks(state.board, square, piece))
                                  = PawnDiagonals(square, color)
                            /\ PawnDiagonals(square, color) \subseteq attacked
    /\ \A t \in PawnAttacked(state.board, Opponent(state.current)) :
          /\ \A j \in 1..Len(legal) :
                At(state.board, legal[j][1]).kind = "K" => legal[j][2] # t
          /\ \A side \in Sides :
                t \in Transit(state.current, side)
                   => ~Contains(castling_moves(state,
                                               <<HomeRow(state.current), 4>>,
                                               At(state.board,
                                                  <<HomeRow(state.current), 4>>)),
                                CastlingTarget(state.current, side))

\* The squares the pieces of color other than pawns add to
\* attacks(board, color).
OfficerAttacked(board, color) ==
    UNION {ListSet(PieceAttacks(board, board.keys[i], At(board, board.keys[i]))) :
              i \in {i \in 1..Len(board.keys) :
                        /\ At(board, board.keys[i]).color = color
                        /\ At(board, board.keys[i]).kind # "P"}}

\* C23 witness: the side to move holds a castling right, its king is not in
\* check and the squares towards the rook are empty, but an opposing pawn,
\* and no other piece, attacks the empty square next to the king: the king
\* may neither castle across it nor step onto it.
C23_Witness ==
    \E side \in Sides :
        \E t \in PawnAttacked(state.board, Opponent(state.current)) :
            LET king_square == <<HomeRow(state.current), 4>>
                king        == At(state.board, king_square)
            IN  /\ t \in Transit(state.current, side)
                /\ ~DictHas(state.board, t)
                /\ t \notin OfficerAttacked(state.board, Opponent(state.current))
                /\ MayCastle(state, king_square, king, side,
                             IF side = "K" THEN {5, 6} ELSE {1, 2, 3}, {})
                /\ Contains(king_moves(state.board, king_square, king), t)
                /\ ~Contains(legal, <<king_square, t>>)
                /\ ~Contains(legal, <<king_square, CastlingTarget(state.current, side)>>)

\* The forward moves the rules give the pawn piece on start: one step onto
\* an empty square, two steps from the starting rank of its color over an
\* empty square onto an empty square.
PawnPushes(s, start, piece) ==
    LET direction == PawnDirection(piece.color)
        one_step  == <<start[1] + direction, start[2]>>
        two_step  == <<start[1] + 2 * direction, start[2]>>
    IN  {t \in {one_step} : in_bounds(t) /\ ~DictHas(s.board, t)}
        \cup {t \in {two_step} :
                 /\ start[1] = (IF piece.color = "w" THEN 6 ELSE 1)
                 /\ ~DictHas(s.board, one_step)
                 /\ ~DictHas(s.board, t)}

\* The diagonal moves of the pawn piece on start: onto a square holding a
\* piece of the other color, or onto the en-passant target.
PawnTakes(s, start, piece) ==
    {t \in PawnDiagonals(start, piece.color) :
        \/ At(s.board, t).color = Opponent(piece.color)
        \/ t = s.en_passant}

\* C24: the forward moves of a pawn never capture: pawn_moves offers the
\* single push only onto an empty square and the double push only from the
\* starting rank of the pawn's color (row 6 for White, row 1 for Black)
\* with the intermediate and the destination square empty; it offers a
\* diagonal move only onto a square occupied by the opponent or onto the
\* current en-passant target; and it offers each of these moves.
C24_PawnMoves ==
    \A i \in 1..Len(state.board.keys) :
        LET square == state.board.keys[i]
            piece  == At(state.board, square)
        IN  piece.kind = "P"
               => ListSet(pawn_moves(state, square, piece))
                     = PawnPushes(state, square, piece)
                       \cup PawnTakes(state, square, piece)

\* C24 witness: a pawn of the side to move has a piece of the other color
\* straight ahead, which pawn_moves does not let it take, and pawn_moves
\* offers a pawn of that side the diagonal move onto the empty en-passant
\* target.
C24_Witness ==
    /\ \E i \in 1..Len(state.board.keys) :
          LET square == state.board.keys[i]
              piece  == At(state.board, square)
              ahead  == <<square[1] + PawnDirection(piece.color), square[2]>>
          IN  /\ piece = Piece(state.current, "P")
              /\ At(state.board, ahead).color = Opponent(piece.color)
              /\ ~Contains(pawn_moves(state, square, piece), ahead)
    /\ \E i \in 1..Len(state.board.keys) :
          LET square == state.board.keys[i]
              piece  == At(state.board, square)
          IN  /\ piece = Piece(state.current, "P")
              /\ state.en_passant # NoSquare
              /\ ~DictHas(state.board, state.en_passant)
              /\ Contains(pawn_moves(state, square, piece), state.en_passant)

Sign(n) == IF n > 0 THEN 1 ELSE IF n < 0 THEN 0 - 1 ELSE 0

\* start and end lie on one row, column or diagonal.
OnLine(start, end) ==
    /\ start # end
    /\ \/ start[1] = end[1]
       \/ start[2] = end[2]
       \/ Abs(end[1] - start[1]) = Abs(end[2] - start[2])

\* The squares strictly between start and end on their common line.
Passed(start, end) ==
    LET dr == Sign(end[1] - start[1])
        dc == Sign(end[2] - start[2])
        n  == IF Abs(end[1] - start[1]) > Abs(end[2] - start[2])
              THEN Abs(end[1] - start[1]) ELSE Abs(end[2] - start[2])
    IN  {<<start[1] + k * dr, start[2] + k * dc>> : k \in 1..(n - 1)}

\* C25: no move of legal_moves(state, color) ends on a square holding a
\* piece of color, and every bishop, rook and queen move runs along a line
\* of the piece's direction list whose squares strictly between origin and
\* destination are all empty.
C25_NoOwnTargetNoJump ==
    \A i \in 1..Len(legal) :
        LET start == legal[i][1]
            end   == legal[i][2]
            piece == At(state.board, start)
        IN  /\ piece.color = state.current
            /\ At(state.board, end).color # piece.color
            /\ piece.kind \in {"B", "R", "Q"}
                  => /\ OnLine(start, end)
                     /\ Contains(SlidingDeltas(piece.kind),
                                 <<Sign(end[1] - start[1]),
                                   Sign(end[2] - start[2])>>)
                     /\ \A t \in Passed(start, end) : ~DictHas(state.board, t)

\* C25 witness: legal_moves holds a bishop, rook or queen move over at least
\* two empty squares that takes a piece behind which, on the same line,
\* stands a further piece; and a knight of the side to move stands a
\* knight's move from a piece of its own color.
C25_Witness ==
    /\ \E i \in 1..Len(legal) :
          LET start == legal[i][1]
              end   == legal[i][2]
              piece == At(state.board, start)
              dr    == Sign(end[1] - start[1])
              dc    == Sign(end[2] - start[2])
          IN  /\ piece.kind \in {"B", "R", "Q"}
              /\ Cardinality(Passed(start, end)) >= 2
              /\ At(state.board, end).color = Opponent(piece.color)
              /\ DictHas(state.board, <<end[1] + dr, end[2] + dc>>)
    /\ \E i \in 1..Len(state.board.keys) :
          LET square == state.board.keys[i] IN
          /\ At(state.board, square) = Piece(state.current, "N")
          /\ \E n \in 1..Len(KnightDeltas) :
                At(state.board, <<square[1] + KnightDeltas[n][1],
                                  square[2] + KnightDeltas[n][2]>>).color
                   = state.current

\* The moves piece_moves offers the pawns of color that end on the last
\* rank, as (origin, destination) pairs.
PromotingMoves(s, color) ==
    UNION {{<<s.board.keys[i], t>> :
               t \in {t \in ListSet(piece_moves(s, s.board.keys[i],
                                                Piece(color, "P"))) :
                         IsPromotion(Piece(color, "P"), t)}} :
              i \in {i \in 1..Len(s.board.keys) :
                        At(s.board, s.board.keys[i]) = Piece(color, "P")}}

\* C26: the promotion choice does not change the mover's check status: for
\* every promoting move of the side to move and every choice of Queen,
\* Rook, Bishop or Knight, is_in_check of the state apply_move returns is
\* the same as with the Queen default, so legal_moves, which filters with
\* the default, holds exactly the promoting moves that are legal for every
\* choice.
C26_PromotionChoiceCheck ==
    \A pair \in PromotingMoves(state, state.current) :
        \A checked \in {is_in_check(apply_move(state, pair[1], pair[2], NoChoice),
                                    state.current)} :
            /\ \A choice \in PromotionChoices :
                  is_in_check(apply_move(state, pair[1], pair[2], choice),
                              state.current) = checked
            /\ Contains(legal, pair) = ~checked

\* C26 witness: the side to move is in check and has a pawn that piece_moves
\* lets promote; promoting leaves it in check whatever the choice, and the
\* choices give different boards.
C26_Witness ==
    \E pair \in PromotingMoves(state, state.current) :
        /\ is_in_check(state, state.current)
        /\ ~Contains(legal, pair)
        /\ \A choice \in PromotionChoices :
              /\ is_in_check(apply_move(state, pair[1], pair[2], choice),
                             state.current)
              /\ At(apply_move(state, pair[1], pair[2], choice).board, pair[2])
                    = Piece(state.current, choice)

\* The (square, target) pairs legal_moves(s, color) passes to apply_move,
\* in the order of its two loops.
RECURSIVE Candidates(_, _, _)
Candidates(s, color, i) ==
    IF i > Len(s.board.keys) THEN <<>>
    ELSE LET square  == s.board.keys[i]
             piece   == At(s.board, square)
             targets == piece_moves(s, square, piece)
                        \o castling_moves(s, square, piece)
         IN  (IF piece.color # color THEN <<>>
              ELSE [j \in 1..Len(targets) |-> <<square, targets[j]>>])
             \o Candidates(s, color, i + 1)

\* legal_moves making the candidate's move on the dicts of the GameState it
\* was given.
candidate_in_place(h, r, s, pair) ==
    LET next == apply_move(s, pair[1], pair[2], NoChoice) IN
    [heap  |-> [id \in DOMAIN h |->
                   IF id = r.board THEN next.board
                   ELSE IF id = h[r.castling_rights].w
                        THEN next.castling_rights.w
                   ELSE IF id = h[r.castling_rights].b
                        THEN next.castling_rights.b
                   ELSE h[id]],
     state |-> [r EXCEPT !.current = next.current,
                         !.en_passant = next.en_passant]]

\* candidate = apply_move(state, square, target, promotion_choice=None) on
\* objects: the heap once the call has returned, and the candidate.
candidate(h, r, s, pair) ==
    apply_move_objects(h, r, apply_move(s, pair[1], pair[2], NoChoice))

\* legal_moves(state, color) on objects: the heap once it has returned.  Each
\* candidate is dropped at the end of its loop turn, so what is left of the
\* calls is what they wrote into the dicts that were there before.
legal_moves_objects(h, r, s, color) ==
    LET pairs   == Candidates(s, color, 1)
        heaps   == [k \in 1..Len(pairs) |-> candidate(h, r, s, pairs[k]).heap]
        changed == {k \in 1..Len(pairs) :
                       \E id \in DictsOf(h, r) : heaps[k][id] # h[id]}
    IN  IF changed = {} THEN h
        ELSE [id \in DOMAIN h |->
                 IF id \in DictsOf(h, r) THEN heaps[Max(changed)][id]
                 ELSE h[id]]

\* The squares of the board.
Squares == (0..7) \X (0..7)

\* C27: legal_moves(state, color) leaves the GameState it is given as it was
\* (board, side to move, castling rights, en-passant target): every
\* candidate it simulates is made of dicts of its own, none of them a dict
\* of the given state, nothing of a candidate is left once legal_moves has
\* returned, and the list it returns holds pairs of squares only.
C27_LegalMovesFrame ==
    /\ Deref(heap, ref) = state
    /\ \A pairs \in {Candidates(state, state.current, 1)} :
          \A k \in 1..Len(pairs) :
              \A c \in {candidate(heap, ref, state, pairs[k])} :
                  /\ Deref(c.heap, ref) = state
                  /\ DictsOf(c.heap, c.state) \cap DOMAIN heap = {}
    /\ \A after \in {legal_moves_objects(heap, ref, state, state.current)} :
          /\ after = heap
          /\ Deref(after, ref) = state
    /\ \A i \in 1..Len(legal) : legal[i] \in Squares \X Squares

\* C27 witness: legal_moves has simulated a candidate that it did not keep,
\* the candidate's board and rights differ from those of the state it was
\* given, and that state is as it was.
C27_Witness ==
    /\ Moved
    /\ \E pairs \in {Candidates(state, state.current, 1)} :
          \E k \in 1..Len(pairs) :
              \E c \in {candidate(heap, ref, state, pairs[k])} :
                  /\ ~Contains(legal, pairs[k])
                  /\ Deref(c.heap, c.state).board # state.board
                  /\ Deref(c.heap, c.state).castling_rights
                        # state.castling_rights
                  /\ Deref(c.heap, ref) = state

\* The squares of board that hold the king of color.
KingSquares(board, color) ==
    {sq \in Squares : At(board, sq) = Piece(color, "K")}

\* s with the king of color taken off the board.
Kingless(s, color) ==
    [s EXCEPT !.board = DictPop(s.board, find_king(s.board, color))]

\* C28: is_in_check(state, color) is true exactly when the square of the
\* king of color is in attacks(state.board, opponent); on a board without a
\* king of color find_king returns None and is_in_check returns false.
C28_IsInCheck ==
    \A color \in Colors :
        /\ KingSquares(state.board, color) # {}
        /\ is_in_check(state, color)
              = (\E sq \in KingSquares(state.board, color) :
                    sq \in ListSet(attacks(state.board, Opponent(color))))
        /\ \A s \in {Kingless(state, color)} :
              /\ KingSquares(s.board, color) = {}
              /\ find_king(s.board, color) = NoSquare
              /\ is_in_check(s, color) = FALSE

\* C28 witness: the king of the side to move stands on a square of the
\* opponent's attacks, is_in_check is true, and is_in_check of the same
\* position without that king is false.
C28_Witness ==
    /\ Moved
    /\ find_king(state.board, state.current)
          \in ListSet(attacks(state.board, Opponent(state.current)))
    /\ is_in_check(state, state.current)
    /\ find_king(Kingless(state, state.current).board, state.current) = NoSquare
    /\ ~is_in_check(Kingless(state, state.current), state.current)

\* C29 as claimed: after every move applied through the GUI, and before the
\* next move is accepted, ChessGUI has asked is_in_check and legal_moves
\* about the new state, the two queries that tell whether the side to move
\* is in check, checkmated or stalemated.
C29_Claimed ==
    [][(ply >= 1 /\ ply' = ply + 1)
          => {"is_in_check", "legal_moves"} \subseteq queried]_vars

\* C29 witness: a move has been applied that leaves the side to move in
\* check, the piece of the reply is selected, and all ChessGUI has asked
\* about the new state is legal_moves; the status label names the side to
\* move and nothing else.
C29_Witness ==
    /\ ply >= 1
    /\ is_in_check(state, state.current)
    /\ selected # NoSquare
    /\ Len(highlighted) > 0
    /\ Contains(legal, <<selected, highlighted[1]>>)
    /\ queried = {"legal_moves"}
    /\ status_var = StatusText(state.current)

\* ------------------------------------------------------------ square_name

\* FILES = "abcdefgh", character by character.
FILES == <<"a", "b", "c", "d", "e", "f", "g", "h">>

\* seq[i] as Python indexes a string: from 0, a negative i counting from the
\* end, and an error outside.
Index(seq, i) ==
    CASE 0 <= i /\ i < Len(seq) -> seq[i + 1]
      [] 0 - Len(seq) <= i /\ i < 0 -> seq[Len(seq) + i + 1]

DecimalDigits == <<"0", "1", "2", "3", "4", "5", "6", "7", "8", "9">>

\* The decimal text an f-string gives an int.
RECURSIVE str(_)
str(n) ==
    IF n < 0 THEN "-" \o str(0 - n)
    ELSE IF n < 10 THEN DecimalDigits[n + 1]
    ELSE str(n \div 10) \o DecimalDigits[(n % 10) + 1]

\* square_name counting ranks upwards from row 0.
square_name_from_row_0(square) ==
    Index(FILES, square[2]) \o str(square[1] + 1)

square_name(square) ==
    Index(FILES, square[2]) \o str(8 - square[1])

\* C30: square_name gives every square (row, col) in bounds, the keys of the
\* board among them, the file letter 'a'..'h' of col 0..7 followed by the
\* rank digit 8 - row (row 0 is rank 8, row 7 is rank 1), and no two of the
\* 64 squares the same name.
C30_SquareName ==
    /\ \A sq \in Squares \cup ListSet(state.board.keys) :
          square_name(sq)
             = <<"a", "b", "c", "d", "e", "f", "g", "h">>[sq[2] + 1]
               \o <<"8", "7", "6", "5", "4", "3", "2", "1">>[sq[1] + 1]
    /\ Cardinality({square_name(sq) : sq \in Squares}) = 64

\* C30 witness: the move just played is e2e4 in the names of square_name,
\* and the corners (0,0) and (7,7) are a8 and h1.
C30_Witness ==
    /\ Moved
    /\ move[1] = <<6, 4>>
    /\ square_name(move[1]) = "e2"
    /\ square_name(move[2]) = "e4"
    /\ square_name(<<0, 0>>) = "a8"
    /\ square_name(<<7, 7>>) = "h1"

\* C31: in every state reached from initial_state() by legal moves, a
\* castling right that is still true has the king of its color on column 4
\* of its home row and a rook of that color on the home corner of its side
\* (column 7 kingside, column 0 queenside); so board.pop(rook_start) finds
\* the rook for every castling move of legal_moves.
C31_RightsImplyHome ==
    /\ \A color \in Colors : \A side \in Sides :
          state.castling_rights[color][side]
             => /\ At(state.board, <<HomeRow(color), 4>>) = Piece(color, "K")
                /\ At(state.board, HomeCorner(color, side)) = Piece(color, "R")
    /\ \A i \in 1..Len(legal) :
          IsCastlingMove(At(state.board, legal[i][1]), legal[i][1], legal[i][2])
             => /\ ~ApplyMoveRaises(state, legal[i][1], legal[i][2])
                /\ At(state.board, RookStart(legal[i][1], legal[i][2]))
                      = Piece(state.current, "R")

\* C31 witness: White has lost the kingside right with the rook of (7,7),
\* still holds the queenside right with king and rook at home, and
\* legal_moves offers the queenside castling move.
C31_Witness ==
    /\ state.current = "w"
    /\ ~state.castling_rights.w.K
    /\ At(state.board, <<7, 7>>) # Piece("w", "R")
    /\ state.castling_rights.w.Q
    /\ At(state.board, <<7, 0>>) = Piece("w", "R")
    /\ Contains(legal, <<<<7, 4>>, <<7, 2>>>>)

\* The larger of the row and column distances of two squares.
Distance(a, b) ==
    IF Abs(a[1] - b[1]) > Abs(a[2] - b[2])
    THEN Abs(a[1] - b[1]) ELSE Abs(a[2] - b[2])

\* C32: in every state reached from initial_state() by moves of
\* legal_moves(state, state.current), the color that is not to move, the one
\* that just moved, is not in check; in particular the two kings never
\* stand on adjacent squares.
C32_MoverNotInCheck ==
    /\ ~is_in_check(state, Opponent(state.current))
    /\ Distance(find_king(state.board, "w"), find_king(state.board, "b")) > 1

\* C32 witness: a king has just moved to a square two squares away from
\* the other king and is not in check there.
C32_Witness ==
    /\ Moved
    /\ MovedPiece.kind = "K"
    /\ find_king(state.board, MovedPiece.color) = move[2]
    /\ Distance(move[2], find_king(state.board, state.current)) = 2
    /\ ~is_in_check(state, MovedPiece.color)

\* The moves of legal that take en passant: a pawn moving diagonally onto
\* the en-passant target.
EnPassantCaptures ==
    {i \in 1..Len(legal) :
        /\ At(state.board, legal[i][1]).kind = "P"
        /\ legal[i][2] = state.en_passant
        /\ legal[i][1][2] # legal[i][2][2]}

\* C33: while an en-passant target is set, the target square is empty, it
\* lies on row 5 when Black is to move and on row 2 when White is to move,
\* the square one row beyond it holds a pawn of the color that just moved,
\* and the square one row before it, that pawn's starting square, is empty;
\* an en-passant capture of legal_moves removes exactly one piece, a pawn of
\* the color that just moved.
C33_EnPassantShape ==
    state.en_passant # NoSquare
        => \A mover \in {Opponent(state.current)} :
           \A target \in {state.en_passant} :
              /\ in_bounds(target)
              /\ ~DictHas(state.board, target)
              /\ target[1] = (IF state.current = "b" THEN 5 ELSE 2)
              /\ At(state.board, <<target[1] + PawnDirection(mover), target[2]>>)
                    = Piece(mover, "P")
              /\ target[1] + PawnDirection(mover) = (IF mover = "w" THEN 4 ELSE 3)
              /\ ~DictHas(state.board, <<target[1] - PawnDirection(mover), target[2]>>)
              /\ \A i \in EnPassantCaptures :
                    \A next \in {apply_move(state, legal[i][1], legal[i][2], NoChoice)} :
                       /\ Len(next.board.keys) = Len(state.board.keys) - 1
                       /\ CountOf(next.board, Piece(mover, "P"))
                             = CountOf(state.board, Piece(mover, "P")) - 1
                       /\ CountOf(next.board, Piece(state.current, "P"))
                             = CountOf(state.board, Piece(state.current, "P"))

\* C33 witness: a target is set on row 2 after a Black double step, and
\* legal_moves offers White an en-passant capture onto it.
C33_Witness ==
    /\ state.en_passant # NoSquare
    /\ state.current = "w"
    /\ state.en_passant[1] = 2
    /\ EnPassantCaptures # {}

\* The squares of board that hold a pawn.
PawnSquares(board) ==
    {board.keys[i] : i \in {i \in 1..Len(board.keys) :
                               At(board, board.keys[i]).kind = "P"}}

\* C34: no pawn stands on row 0 or row 7: a pawn that reaches the far rank
\* is replaced in the same move and pawns never move backwards, so the
\* square ahead of every pawn on the board is in bounds.
C34_NoPawnOnLastRanks ==
    /\ \A square \in PawnSquares(state.board) :
          /\ square[1] \in 1..6
          /\ in_bounds(<<square[1] + PawnDirection(At(state.board, square).color),
                         square[2]>>)
    /\ (Moved /\ MovedPiece.kind = "P")
          => /\ Sign(move[2][1] - move[1][1]) = PawnDirection(MovedPiece.color)
             /\ ReachedLastRank = (At(state.board, move[2]).kind # "P")

\* C34 witness: a pawn has just stepped onto the far rank and the square
\* holds a queen, rook, bishop or knight of its color instead.
C34_Witness ==
    /\ Moved
    /\ MovedPiece.kind = "P"
    /\ move[2][1] \in {0, 7}
    /\ At(state.board, move[2]).color = MovedPiece.color
    /\ At(state.board, move[2]).kind \in PromotionChoices
    /\ PawnSquares(state.board) # {}

\* The moves of legal that castle.
CastlingMovesListed ==
    {i \in 1..Len(legal) :
        IsCastlingMove(At(state.board, legal[i][1]), legal[i][1], legal[i][2])}

\* The moves of legal by which a pawn takes the piece on its destination.
OrdinaryPawnCaptures ==
    {i \in 1..Len(legal) :
        /\ At(state.board, legal[i][1]).kind = "P"
        /\ DictHas(state.board, legal[i][2])}

\* C35: legal_moves(state, state.current) lists no (origin, destination)
\* pair twice: the en-passant destination is never the destination of an
\* ordinary diagonal capture, a castling destination is never the destination
\* of an ordinary king move, and the length of the list is the number of
\* distinct moves.
C35_NoDuplicateMoves ==
    /\ \A i \in 1..Len(legal) : \A j \in 1..Len(legal) :
          legal[i] = legal[j] => i = j
    /\ Len(legal) = Cardinality(ListSet(legal))
    /\ \A i \in EnPassantCaptures :
          ~Contains(SubSeq(pawn_moves(state, legal[i][1], At(state.board, legal[i][1])),
                           1, Len(pawn_moves(state, legal[i][1],
                                             At(state.board, legal[i][1]))) - 1),
                    legal[i][2])
    /\ \A i \in CastlingMovesListed :
          ~Contains(king_moves(state.board, legal[i][1], At(state.board, legal[i][1])),
                    legal[i][2])

\* C35 witness: legal_moves lists an en-passant capture next to an ordinary
\* pawn capture, each of them once.
C35_Witness ==
    /\ EnPassantCaptures # {}
    /\ OrdinaryPawnCaptures # {}
    /\ Len(legal) = Cardinality(ListSet(legal))

\* The number of pieces of color on board.
ColorCount(board, color) ==
    Cardinality({i \in 1..Len(board.keys) :
                    At(board, board.keys[i]).color = color})

\* The last move took a piece: the one on its destination, or a pawn en
\* passant.
Captured ==
    \/ DictHas(prev.board, move[2])
    \/ IsEnPassantCapture(prev, MovedPiece, move[2])

\* C36: a move of legal_moves(state, state.current) leaves the number of
\* pieces of the moving color as it was and removes one piece of the other
\* color when it captures, en passant included, and none otherwise; the total
\* number of pieces never grows and no color ever has more than 16 pieces.
C36_PieceCounts ==
    /\ \A color \in Colors : ColorCount(state.board, color) <= 16
    /\ Len(state.board.keys) <= 32
    /\ Moved
          => /\ ColorCount(state.board, prev.current)
                   = ColorCount(prev.board, prev.current)
             /\ ColorCount(state.board, state.current)
                   = ColorCount(prev.board, state.current)
                        - (IF Captured THEN 1 ELSE 0)
             /\ Len(state.board.keys) <= Len(prev.board.keys)
             /\ CapturedPiece # NoPiece => CapturedPiece.color = state.current

\* C36 witness: White has just castled with all 16 of its pieces on the
\* board, and still has 16.
C36_Witness ==
    /\ Moved
    /\ IsCastlingMove(MovedPiece, move[1], move[2])
    /\ ~Captured
    /\ MovedPiece.color = "w"
    /\ ColorCount(prev.board, "w") = 16
    /\ ColorCount(state.board, "w") = 16

\* self.selected and self.highlighted fit self.state: nothing is selected
\* and nothing highlighted, or the selected square holds a piece of the color
\* to move and the highlighted squares are the destinations legal_moves gives
\* for it, in its order.
SelectionFits ==
    IF selected = NoSquare THEN highlighted = <<>>
    ELSE /\ in_bounds(selected)
         /\ At(state.board, selected).color = state.current
         /\ highlighted = Highlights(legal, selected)
         /\ ListSet(highlighted)
               = {pair[2] : pair \in {p \in ListSet(legal) : p[1] = selected}}

\* C37: after every click the selection is empty or a square holding a
\* piece of the color to move, and the highlighted squares are the legal
\* destinations of the selected piece in the current state, none when nothing
\* is selected; the click that applies a move clears both; and a click
\* changes the game state, the selection or the highlights only when it is on
\* the selected square (which clears the selection), on a legal destination
\* of the selected piece (which applies the move) or on a piece of the color
\* to move (which selects it).
C37_SelectionAndHighlights ==
    [][/\ SelectionFits
       /\ SelectionFits'
       /\ state' # state
             => /\ selected # NoSquare
                /\ move'[1] = selected
                /\ Contains(highlighted, move'[2])
                /\ Contains(legal, <<selected, move'[2]>>)
                /\ selected' = NoSquare
                /\ highlighted' = <<>>
       /\ (state' = state /\ <<selected', highlighted'>> # <<selected, highlighted>>)
             => \/ selected # NoSquare /\ selected' = NoSquare
                \/ /\ selected' # NoSquare
                   /\ selected' # selected
                   /\ At(state.board, selected').color = state.current
                   /\ ~Contains(legal, <<selected, selected'>>)]_vars

\* C37 witness: after a move, a Black piece with more than one legal
\* destination is selected and its destinations are highlighted.
C37_Witness ==
    /\ Moved
    /\ selected # NoSquare
    /\ At(state.board, selected).color = "b"
    /\ state.current = "b"
    /\ Len(highlighted) > 1
    /\ highlighted = Highlights(legal, selected)

\* C38: a state in which legal_moves(state, state.current) is empty,
\* checkmate or stalemate, is terminal for the GUI: no click in it calls
\* apply_move or changes the board, the side to move, the castling rights or
\* the en-passant target, so the list stays empty from then on.
C38_NoMovesIsTerminal ==
    [][Len(legal) = 0
          => /\ state' = state
             /\ state'.board = state.board
             /\ state'.current = state.current
             /\ state'.castling_rights = state.castling_rights
             /\ state'.en_passant = state.en_passant
             /\ ply' = ply
             /\ move' = move
             /\ prev' = prev
             /\ Len(legal') = 0
             /\ highlighted' = <<>>]_vars

\* C38 witness: Black is checkmated, a Black piece has been clicked and is
\* selected, and no square is highlighted for it.
C38_Witness ==
    /\ Moved
    /\ Len(legal) = 0
    /\ is_in_check(state, state.current)
    /\ state.current = "b"
    /\ selected # NoSquare
    /\ At(state.board, selected).color = "b"
    /\ highlighted = <<>>

=============================================================================
